---- MODULE Spec2Model ----
(***************************************************************************)
(* rbxfs: the sync-out analyzer, syncOutAnalyzeActions (src/sync-out.go),  *)
(* the sync-in of one place directory (planner, analyzer, executor), the   *)
(* rule-file parser and the top-level calls.                               *)
(*                                                                         *)
(* An analyzer is a pure function from a list of candidate actions to the  *)
(* canonical list.  Its passes are the actions of the state machine; the   *)
(* iteration order of its Go maps and the tie resolution of its            *)
(* non-stable sorts are nondeterministic choices of those actions.        *)
(*                                                                         *)
(* Strings are sequences of byte codes, so that filepath.Join and the      *)
(* string comparison of the sorts are computed, not assumed.               *)
(*                                                                         *)
(* Each specification drives its own part of the state; the variables of   *)
(* the other parts stay at Idle.                                           *)
(***************************************************************************)
EXTENDS Integers, Sequences, FiniteSets, TLC

\* input, actions, pc: the list given to an analyzer, the list it works on,
\* and the position of the control.
VARIABLES input, actions, pc

\* The sync-in of one place directory: the rule pairs, the SourceCache, the
\* number of Decode calls made per file path, and the tree built by the
\* executor.
VARIABLES rules, cache, decodes, datamodel

\* The rule parser (the struct ruleParser), the errors collected by its
\* caller or by a top-level call, and the locals of a top-level call.
VARIABLES parser, errs, repo

vars == <<input, actions, pc, rules, cache, decodes, datamodel, parser, errs, repo>>

Idle == "idle"

\* The variables the sync-out analyzer leaves alone.
syncOutIdle == <<rules, cache, decodes, datamodel, parser, errs, repo>>

(***************************************************************************)
(* Strings                                                                 *)
(***************************************************************************)

\* os.PathSeparator, the "/" that filepath.Join puts between elements.
Separator == <<47>>

EmptyName == <<>>
NameA == <<97>>
NameB == <<98>>
PlaceDir == <<112>>
PropP == <<80>>
PropQ == <<81>>

\* Go's < on strings: bytewise lexicographic, a proper prefix is smaller.
StrLess(s, t) ==
    \E k \in 0..Len(s) :
        /\ k <= Len(t)
        /\ \A i \in 1..k : s[i] = t[i]
        /\ \/ k = Len(s) /\ k < Len(t)
           \/ k < Len(s) /\ k < Len(t) /\ s[k + 1] < t[k + 1]

\* filepath.Join: empty elements are ignored, the others are joined with the
\* separator.  (The Clean that follows changes nothing for elements that hold
\* no separator and are not "." or "..", which is all the elements used here.)
RECURSIVE JoinPath(_)
JoinPath(elems) ==
    IF elems = <<>> THEN <<>>
    ELSE LET rest == JoinPath(Tail(elems))
         IN  IF Head(elems) = <<>> THEN rest
             ELSE IF rest = <<>> THEN Head(elems)
             ELSE Head(elems) \o Separator \o rest

(***************************************************************************)
(* The object tree (rbxfile.Instance): DataModel R with children A and B,  *)
(* A with the one child C.                                                 *)
(***************************************************************************)

Objects == {"R", "A", "B", "C"}

ObjChildren ==
    [o \in Objects |->
        CASE o = "R" -> <<"A", "B">>
          [] o = "A" -> <<"C">>
          [] OTHER   -> <<>>]

ObjParent(o) ==
    IF \E p \in Objects : \E i \in 1..Len(ObjChildren[p]) : ObjChildren[p][i] = o
    THEN CHOOSE p \in Objects : \E i \in 1..Len(ObjChildren[p]) : ObjChildren[p][i] = o
    ELSE "nil"

\* getChildIndex: the 0-based index of obj in its parent, 0 without a parent.
getChildIndex(obj) ==
    LET parent == ObjParent(obj)
    IN  IF parent /= "nil"
        THEN (CHOOSE i \in 1..Len(ObjChildren[parent]) : ObjChildren[parent][i] = obj) - 1
        ELSE 0

(***************************************************************************)
(* OutAction, OutMap, FileDef, OutSelection                                *)
(***************************************************************************)

OutSelection(obj, children, properties) ==
    [Object |-> obj, Children |-> children, Properties |-> properties]

FileDef(name, isDir) == [Name |-> name, IsDir |-> isDir]

OutMap(file, selection) == [File |-> file, Selection |-> selection]

OutAction(depth, dir, map) == [Depth |-> depth, Dir |-> dir, Map |-> map]

\* Go's s[:n] on a slice.
Prefix(s, n) == SubSeq(s, 1, n)

getOutActionPathMaxDepth(action) == Len(action.Dir) + 1

getOutActionPath(action, depth) ==
    IF depth = 0
    THEN JoinPath(<<JoinPath(action.Dir), action.Map.File.Name>>)
    ELSE LET d == IF depth > Len(action.Dir) THEN Len(action.Dir) ELSE depth
         IN  JoinPath(Prefix(action.Dir, Len(action.Dir) - d + 1))

\* getDirOutActionObject: "nil", the selected child object, or "panic" when the
\* child index is outside the source object's children (index out of range).
getDirOutActionObject(action) ==
    IF Len(action.Map.Selection) /= 1 THEN "nil"
    ELSE LET sel == action.Map.Selection[1]
         IN  IF Len(sel.Children) /= 1 THEN "nil"
             ELSE IF sel.Children[1] < 0 \/ sel.Children[1] >= Len(ObjChildren[sel.Object])
                  THEN "panic"
                  ELSE ObjChildren[sel.Object][sel.Children[1] + 1]

(***************************************************************************)
(* Orders.  SortOrders(s, rank) is the set of results a non-stable sort of  *)
(* s can return: every arrangement of s in which no element is Less than    *)
(* an element before it.  MapOrders(s) is the set of orders in which        *)
(* ranging over a Go map that holds the elements of s can yield them.       *)
(***************************************************************************)

RECURSIVE RankedOrders(_)
RankedOrders(S) ==
    IF S = {} THEN {<<>>}
    ELSE LET least == {x \in S : \A y \in S : x.rank <= y.rank}
         IN  UNION {{<<x.index>> \o t : t \in RankedOrders(S \ {x})} : x \in least}

\* rank[i] is the number of elements of s that are Less than s[i].
SortOrders(s, rank) ==
    {[k \in 1..Len(s) |-> s[p[k]]] :
        p \in RankedOrders({[rank |-> rank[i], index |-> i] : i \in 1..Len(s)})}

MapOrders(s) == SortOrders(s, [i \in 1..Len(s) |-> 0])

\* a sort.Ints that leaves the slice as it is
SortIntsUnsorted(s) == s

\* sort.Ints and sort.Strings: equal elements are indistinguishable, so the
\* result is one sequence.
SortInts(s) ==
    CHOOSE r \in SortOrders(s,
        [i \in 1..Len(s) |-> Cardinality({j \in 1..Len(s) : s[j] < s[i]})]) : TRUE

SortStrings(s) ==
    CHOOSE r \in SortOrders(s,
        [i \in 1..Len(s) |-> Cardinality({j \in 1..Len(s) : StrLess(s[j], s[i])})]) : TRUE

RECURSIVE Concat(_)
Concat(ss) == IF ss = <<>> THEN <<>> ELSE Head(ss) \o Concat(Tail(ss))

(***************************************************************************)
(* Valid Directory pass (sync-out.go 294-305)                              *)
(***************************************************************************)

\* The pass dereferences a child index that is out of range: the run panics.
ValidDirectoryPanics(acts) ==
    \E i \in 1..Len(acts) :
        acts[i].Map.File.IsDir /\ getDirOutActionObject(acts[i]) = "panic"

ValidDirectoryKeeps(action) ==
    ~(action.Map.File.IsDir /\ getDirOutActionObject(action) = "nil")

ValidDirectory(acts) == SelectSeq(acts, ValidDirectoryKeeps)

(***************************************************************************)
(* Conflicting Directory pass (sync-out.go 307-353)                        *)
(***************************************************************************)

\* a comparison that forgets the child index
DirItemDiffersByObject(action, item) ==
    action.Map.Selection[1].Object /= item.obj

DirItemDiffers(action, item) ==
    \/ action.Map.Selection[1].Object /= item.obj
    \/ action.Map.Selection[1].Children[1] /= item.child

\* The dirs map after the marking loop has run over acts.
RECURSIVE MarkDirs(_, _)
MarkDirs(acts, dirs) ==
    IF acts = <<>> THEN dirs
    ELSE LET action == Head(acts)
             path == getOutActionPath(action, 0)
             next ==
                 IF ~action.Map.File.IsDir THEN dirs
                 ELSE IF path \in DOMAIN dirs
                 THEN IF DirItemDiffers(action, dirs[path])
                      THEN [dirs EXCEPT ![path].conflict = TRUE]
                      ELSE dirs
                 ELSE [p \in DOMAIN dirs \cup {path} |->
                          IF p = path
                          THEN [conflict |-> FALSE,
                                obj |-> action.Map.Selection[1].Object,
                                child |-> action.Map.Selection[1].Children[1]]
                          ELSE dirs[p]]
         IN  MarkDirs(Tail(acts), next)

NoDirs == [p \in {} |-> [conflict |-> FALSE, obj |-> "nil", child |-> 0]]

\* The paths the removal loop looks up for an action: its own path (depth 0)
\* and every prefix of its Dir.
ConflictPathDepths(action) == 0..(getOutActionPathMaxDepth(action) - 1)

InConflict(action, dirs) ==
    \E i \in ConflictPathDepths(action) :
        LET path == getOutActionPath(action, i)
        IN  path \in DOMAIN dirs /\ dirs[path].conflict

ConflictingDirectory(acts) ==
    LET dirs == MarkDirs(acts, NoDirs)
    IN  SelectSeq(acts, LAMBDA a : ~InConflict(a, dirs))

(***************************************************************************)
(* Conflicting Action pass (sync-out.go 355-425)                           *)
(***************************************************************************)

OrderedOutAction(priority, action) == [Priority |-> priority, Action |-> action]

\* The single-item action the pass stores for a child of a selection.
ChildItemAction(i, action, sel, child) ==
    OrderedOutAction(i,
        OutAction(action.Depth, action.Dir,
            OutMap(action.Map.File, <<OutSelection(sel.Object, <<child>>, <<>>)>>)))

\* The single-item action the pass stores for a property of a selection.
PropItemAction(i, action, sel, prop) ==
    OrderedOutAction(i,
        OutAction(action.Depth, action.Dir,
            OutMap(action.Map.File, <<OutSelection(sel.Object, <<>>, <<prop>>)>>)))

\* The children the loops visit, in visiting order, each as the entry the loop
\* would store (priority i is the 0-based index of the action).
ChildVisits(acts) ==
    Concat([n \in 1..Len(acts) |->
        Concat([m \in 1..Len(acts[n].Map.Selection) |->
            LET sel == acts[n].Map.Selection[m]
            IN  [k \in 1..Len(sel.Children) |->
                    ChildItemAction(n - 1, acts[n], sel, sel.Children[k])]])])

PropVisits(acts) ==
    Concat([n \in 1..Len(acts) |->
        Concat([m \in 1..Len(acts[n].Map.Selection) |->
            LET sel == acts[n].Map.Selection[m]
            IN  [k \in 1..Len(sel.Properties) |->
                    PropItemAction(n - 1, acts[n], sel, sel.Properties[k])]])])

\* a key that tells the files apart
childItemPerFile(entry) ==
    <<entry.Action.Map.Selection[1].Object, entry.Action.Map.Selection[1].Children[1],
      entry.Action.Map.File.Name>>

childItem(entry) ==
    <<entry.Action.Map.Selection[1].Object, entry.Action.Map.Selection[1].Children[1]>>

propItem(entry) ==
    <<entry.Action.Map.Selection[1].Object, entry.Action.Map.Selection[1].Properties[1]>>

\* a test that lets the latter action always override
ChildKeepsExistingNever(existing, entry) == FALSE

\* "Do not override if existing action is deeper."
ChildKeepsExisting(existing, entry) == existing.Action.Depth > entry.Action.Depth

\* The property loop has no such test: the latter action always overrides.
PropKeepsExisting(existing, entry) == FALSE

Put(map, key, value) ==
    [k \in DOMAIN map \cup {key} |-> IF k = key THEN value ELSE map[k]]

RECURSIVE ChildrenMap(_, _)
ChildrenMap(visits, map) ==
    IF visits = <<>> THEN map
    ELSE LET entry == Head(visits)
             item == childItem(entry)
         IN  ChildrenMap(Tail(visits),
                 IF item \in DOMAIN map /\ ChildKeepsExisting(map[item], entry)
                 THEN map
                 ELSE Put(map, item, entry))

RECURSIVE PropertiesMap(_, _)
PropertiesMap(visits, map) ==
    IF visits = <<>> THEN map
    ELSE LET entry == Head(visits)
             item == propItem(entry)
         IN  PropertiesMap(Tail(visits),
                 IF item \in DOMAIN map /\ PropKeepsExisting(map[item], entry)
                 THEN map
                 ELSE Put(map, item, entry))

NoItems == [k \in {} |-> OrderedOutAction(0, <<>>)]

\* SortOutActionsByDepth.Less
SortOutActionsByDepthLess(x, y) ==
    IF x.Action.Depth = y.Action.Depth
    THEN x.Priority < y.Priority
    ELSE x.Action.Depth < y.Action.Depth

\* some enumeration of a finite set as a sequence
RECURSIVE SetToSeq(_)
SetToSeq(S) ==
    IF S = {} THEN <<>>
    ELSE LET x == CHOOSE x \in S : TRUE IN <<x>> \o SetToSeq(S \ {x})

\* The entries of both maps: the winners of the pass.
OverrideWinners(acts) ==
    LET children == ChildrenMap(ChildVisits(acts), NoItems)
        properties == PropertiesMap(PropVisits(acts), NoItems)
    IN  {children[k] : k \in DOMAIN children} \cup {properties[k] : k \in DOMAIN properties}

\* The lists the pass can leave: the winners sorted by depth, then priority;
\* winners of one action tie and come out in any order.
SortByDepth(s) ==
    SortOrders(s,
        [i \in 1..Len(s) |->
            Cardinality({j \in 1..Len(s) : SortOutActionsByDepthLess(s[j], s[i])})])

ConflictingAction(acts) ==
    {[k \in 1..Len(sorted) |-> sorted[k].Action] :
        sorted \in SortByDepth(SetToSeq(OverrideWinners(acts)))}

(***************************************************************************)
(* Subdirectory pass (sync-out.go 427-447)                                 *)
(***************************************************************************)

CreatedDirs(acts) ==
    {getOutActionPath(acts[i], 0) : i \in {j \in 1..Len(acts) : acts[j].Map.File.IsDir}}

\* The depths the loop "for i := 1; i < max-1" looks up.
SubdirPathDepths(action) == 1..(getOutActionPathMaxDepth(action) - 2)

SubdirKeeps(action, dirs) ==
    \A i \in SubdirPathDepths(action) : getOutActionPath(action, i) \in dirs

Subdirectory(acts) ==
    LET dirs == CreatedDirs(acts)
    IN  SelectSeq(acts, LAMBDA a : SubdirKeeps(a, dirs))

(***************************************************************************)
(* Merge pass 1 (sync-out.go 449-468)                                      *)
(***************************************************************************)

\* an assignment in place of the append
MergeSelectionReplace(existing, action) == action.Map.Selection

\* c.Map.Selection = append(c.Map.Selection, action.Map.Selection...)
MergeSelection(existing, action) == existing.Map.Selection \o action.Map.Selection

\* The combine map as the list of its values, in order of first insertion.
RECURSIVE CombineByPath(_, _)
CombineByPath(acts, combined) ==
    IF acts = <<>> THEN combined
    ELSE LET action == Head(acts)
             path == getOutActionPath(action, 0)
             found == {i \in 1..Len(combined) : getOutActionPath(combined[i], 0) = path}
         IN  CombineByPath(Tail(acts),
                 IF found /= {}
                 THEN LET i == CHOOSE i \in found : TRUE
                      IN  [combined EXCEPT ![i].Map.Selection = MergeSelection(combined[i], action)]
                 ELSE Append(combined, action))

MergePass1(acts) == MapOrders(CombineByPath(acts, <<>>))

(***************************************************************************)
(* Merge pass 2 (sync-out.go 470-491)                                      *)
(***************************************************************************)

RECURSIVE CombineByObject(_, _)
CombineByObject(sels, combined) ==
    IF sels = <<>> THEN combined
    ELSE LET sel == Head(sels)
             found == {i \in 1..Len(combined) : combined[i].Object = sel.Object}
         IN  CombineByObject(Tail(sels),
                 IF found /= {}
                 THEN LET i == CHOOSE i \in found : TRUE
                      IN  [combined EXCEPT ![i].Children = @ \o sel.Children,
                                           ![i].Properties = @ \o sel.Properties]
                 ELSE Append(combined, sel))

\* every way to pick one element of each set of a sequence of sets
RECURSIVE Choices(_)
Choices(sets) ==
    IF sets = <<>> THEN {<<>>}
    ELSE {<<x>> \o rest : x \in Head(sets), rest \in Choices(Tail(sets))}

MergePass2(acts) ==
    Choices([i \in 1..Len(acts) |->
        {[acts[i] EXCEPT !.Map.Selection = sels] :
            sels \in MapOrders(CombineByObject(acts[i].Map.Selection, <<>>))}])

(***************************************************************************)
(* Sort pass (sync-out.go 493-505)                                         *)
(***************************************************************************)

SortOutSelectionsLess(x, y) == getChildIndex(x.Object) < getChildIndex(y.Object)

\* a comparison of the file names alone
SortOutActionsByNameLess(x, y) == StrLess(x.Map.File.Name, y.Map.File.Name)

SortOutActionsByDirLess(x, y) == StrLess(getOutActionPath(x, 0), getOutActionPath(y, 0))

SortItems(sels) ==
    [i \in 1..Len(sels) |->
        [sels[i] EXCEPT !.Children = SortInts(@), !.Properties = SortStrings(@)]]

SortSelections(s) ==
    SortOrders(s,
        [i \in 1..Len(s) |->
            Cardinality({j \in 1..Len(s) : SortOutSelectionsLess(s[j], s[i])})])

SortByDir(s) ==
    SortOrders(s,
        [i \in 1..Len(s) |->
            Cardinality({j \in 1..Len(s) : SortOutActionsByDirLess(s[j], s[i])})])

SortPass(acts) ==
    UNION {SortByDir(sorted) :
        sorted \in Choices([i \in 1..Len(acts) |->
            {[acts[i] EXCEPT !.Map.Selection = sels] :
                sels \in SortSelections(SortItems(acts[i].Map.Selection))}])}

(***************************************************************************)
(* Candidate lists.  The candidates are the OutActions that the planner    *)
(* builds from the OutMaps of the default filters (rules.go 342-448) at    *)
(* the three directories below, and four shapes only a custom filter       *)
(* yields.  The analyzer is applied to every list of at most MaxActions    *)
(* of them.                                                                *)
(***************************************************************************)

MaxActions == 3

\* Depth of the global rules and of the project rules (SyncOutReadRepo).
GlobalDepth == 1
ProjectDepth == 2

\* The place root directory, mapped from R; the directory "a" in it, mapped
\* from A; and the directory "b" in that, mapped from C.
RootDir == <<PlaceDir>>
SubDir == <<PlaceDir, NameA>>
SubSubDir == <<PlaceDir, NameA, NameB>>

DirObject(dir) ==
    CASE dir = RootDir -> "R"
      [] dir = SubDir -> "A"
      [] OTHER -> "C"

\* OutAction of a File(name) rule: one selection holding all that the pattern
\* selected.
FileAction(depth, dir, name, children, properties) ==
    OutAction(depth, dir,
        OutMap(FileDef(name, FALSE), <<OutSelection(DirObject(dir), children, properties)>>))

\* OutAction of a Directory() rule for one selected child.
DirectoryAction(depth, dir, name, child) ==
    OutAction(depth, dir,
        OutMap(FileDef(name, TRUE), <<OutSelection(DirObject(dir), <<child>>, <<>>)>>))

\* OutAction of an Ignore() rule: the empty file name.
IgnoreAction(depth, dir, children, properties) ==
    FileAction(depth, dir, EmptyName, children, properties)

RootCandidates ==
    {FileAction(GlobalDepth, RootDir, NameA, <<0>>, <<>>),
     FileAction(ProjectDepth, RootDir, NameA, <<0>>, <<>>),
     FileAction(GlobalDepth, RootDir, NameB, <<0>>, <<>>),
     FileAction(GlobalDepth, RootDir, NameA, <<>>, <<PropP>>),
     FileAction(ProjectDepth, RootDir, NameA, <<>>, <<PropP>>),
     FileAction(GlobalDepth, RootDir, NameB, <<>>, <<PropP>>),
     FileAction(GlobalDepth, RootDir, NameB, <<1>>, <<PropQ>>),
     IgnoreAction(ProjectDepth, RootDir, <<0, 1>>, <<>>),
     DirectoryAction(GlobalDepth, RootDir, NameA, 0),
     DirectoryAction(ProjectDepth, RootDir, NameA, 0),
     \* the second child of R bears the same name as the first
     DirectoryAction(GlobalDepth, RootDir, NameA, 1)}

SubCandidates ==
    {IgnoreAction(GlobalDepth, SubDir, <<>>, <<PropP>>),
     IgnoreAction(ProjectDepth, SubDir, <<0>>, <<>>),
     FileAction(GlobalDepth, SubDir, NameB, <<0>>, <<>>),
     DirectoryAction(GlobalDepth, SubDir, NameB, 0),
     FileAction(GlobalDepth, SubSubDir, NameA, <<>>, <<PropP>>)}

CustomCandidates ==
    {\* a directory of two children
     OutAction(ProjectDepth, RootDir,
         OutMap(FileDef(NameA, TRUE), <<OutSelection("R", <<0, 1>>, <<>>)>>)),
     \* a directory of two selections
     OutAction(GlobalDepth, RootDir,
         OutMap(FileDef(NameA, TRUE),
             <<OutSelection("R", <<0>>, <<>>), OutSelection("A", <<0>>, <<>>)>>)),
     \* a directory of a child that R does not have
     OutAction(GlobalDepth, RootDir,
         OutMap(FileDef(NameB, TRUE), <<OutSelection("R", <<2>>, <<>>)>>)),
     \* a file of no selection
     OutAction(GlobalDepth, RootDir, OutMap(FileDef(NameA, FALSE), <<>>))}

Candidates == RootCandidates \cup SubCandidates \cup CustomCandidates

Inputs == UNION {[1..n -> Candidates] : n \in 0..MaxActions}

(***************************************************************************)
(* The analyzer as a state machine: one action per pass.                   *)
(***************************************************************************)

Init ==
    /\ input \in Inputs
    /\ actions = input
    /\ pc = "start"
    /\ rules = Idle /\ cache = Idle /\ decodes = Idle /\ datamodel = Idle
    /\ parser = Idle /\ errs = Idle /\ repo = Idle

PassValidDirectory ==
    /\ pc = "start"
    /\ IF ValidDirectoryPanics(actions)
       THEN pc' = "panic" /\ actions' = actions
       ELSE pc' = "validDirectory" /\ actions' = ValidDirectory(actions)
    /\ UNCHANGED <<input, syncOutIdle>>

PassConflictingDirectory ==
    /\ pc = "validDirectory"
    /\ actions' = ConflictingDirectory(actions)
    /\ pc' = "conflictingDirectory"
    /\ UNCHANGED <<input, syncOutIdle>>

PassConflictingAction ==
    /\ pc = "conflictingDirectory"
    /\ actions' \in ConflictingAction(actions)
    /\ pc' = "conflictingAction"
    /\ UNCHANGED <<input, syncOutIdle>>

PassSubdirectory ==
    /\ pc = "conflictingAction"
    /\ actions' = Subdirectory(actions)
    /\ pc' = "subdirectory"
    /\ UNCHANGED <<input, syncOutIdle>>

PassMerge1 ==
    /\ pc = "subdirectory"
    /\ actions' \in MergePass1(actions)
    /\ pc' = "merge1"
    /\ UNCHANGED <<input, syncOutIdle>>

PassMerge2 ==
    /\ pc = "merge1"
    /\ actions' \in MergePass2(actions)
    /\ pc' = "merge2"
    /\ UNCHANGED <<input, syncOutIdle>>

PassSort ==
    /\ pc = "merge2"
    /\ actions' \in SortPass(actions)
    /\ pc' = "returned"
    /\ UNCHANGED <<input, syncOutIdle>>

Next ==
    \/ PassValidDirectory
    \/ PassConflictingDirectory
    \/ PassConflictingAction
    \/ PassSubdirectory
    \/ PassMerge1
    \/ PassMerge2
    \/ PassSort

Spec == Init /\ [][Next]_vars

(***************************************************************************)
(* Vocabulary of the properties                                            *)
(***************************************************************************)

Returned == pc = "returned"

FullPath(action) == getOutActionPath(action, 0)

Indices(s) == 1..Len(s)

\* The candidates that reach the Conflicting Action pass.
Survivors == ConflictingDirectory(ValidDirectory(input))

HasChild(action, obj, child) ==
    \E m \in Indices(action.Map.Selection) :
        /\ action.Map.Selection[m].Object = obj
        /\ \E n \in Indices(action.Map.Selection[m].Children) :
               action.Map.Selection[m].Children[n] = child

HasProperty(action, obj, prop) ==
    \E m \in Indices(action.Map.Selection) :
        /\ action.Map.Selection[m].Object = obj
        /\ \E n \in Indices(action.Map.Selection[m].Properties) :
               action.Map.Selection[m].Properties[n] = prop

SelectionsOf(acts) == UNION {{acts[i].Map.Selection[m] : m \in Indices(acts[i].Map.Selection)} : i \in Indices(acts)}

ChildItemsOf(acts) ==
    UNION {{<<sel.Object, sel.Children[n]>> : n \in Indices(sel.Children)} : sel \in SelectionsOf(acts)}

PropItemsOf(acts) ==
    UNION {{<<sel.Object, sel.Properties[n]>> : n \in Indices(sel.Properties)} : sel \in SelectionsOf(acts)}

\* The cascade: candidate i of acts takes precedence over candidate j.
Beats(acts, i, j) ==
    \/ acts[i].Depth > acts[j].Depth
    \/ acts[i].Depth = acts[j].Depth /\ i > j

ChildWinner(acts, obj, child) ==
    CHOOSE i \in Indices(acts) :
        /\ HasChild(acts[i], obj, child)
        /\ \A j \in Indices(acts) \ {i} : HasChild(acts[j], obj, child) => Beats(acts, i, j)

PropWinner(acts, obj, prop) ==
    CHOOSE i \in Indices(acts) :
        /\ HasProperty(acts[i], obj, prop)
        /\ \A j \in Indices(acts) \ {i} : HasProperty(acts[j], obj, prop) => Beats(acts, i, j)

\* The directories that exist when the Subdirectory pass runs.
DirsAfterOverride(acts) == CreatedDirs(CHOOSE r \in ConflictingAction(acts) : TRUE)

(***************************************************************************)
(* C1: out cascade for children                                            *)
(***************************************************************************)

C2_AsClaimed ==
    Returned =>
        \A item \in PropItemsOf(Survivors) :
            LET w == Survivors[PropWinner(Survivors, item[1], item[2])]
            IN  \A r \in Indices(actions) :
                    HasProperty(actions[r], item[1], item[2])
                    => FullPath(actions[r]) = FullPath(w)

(***************************************************************************)
(* C3: a returned directory action has one selection of one child          *)
(***************************************************************************)

\* C3: every returned action whose file definition is a directory has exactly
\* one selection, and that selection has exactly one child index.
C3_AsClaimed ==
    Returned =>
        \A r \in Indices(actions) :
            actions[r].Map.File.IsDir
            => /\ Len(actions[r].Map.Selection) = 1
               /\ Len(actions[r].Map.Selection[1].Children) = 1

(***************************************************************************)
(* C4: subdirectory well-foundedness                                       *)
(***************************************************************************)

\* C4: for every returned action, every prefix of its Dir of two or more
\* segments is the full path of a returned directory action.
C4_AsClaimed ==
    Returned =>
        \A r \in Indices(actions) : \A n \in 2..Len(actions[r].Dir) :
            \E d \in Indices(actions) :
                /\ actions[d].Map.File.IsDir
                /\ FullPath(actions[d]) = JoinPath(Prefix(actions[r].Dir, n))

(***************************************************************************)
(* C5: conflict propagation                                                *)
(***************************************************************************)

\* Candidates i and j of acts are directories of the same full path made from
\* different (source object, child index).
DirConflict(acts, i, j) ==
    /\ acts[i].Map.File.IsDir /\ acts[j].Map.File.IsDir
    /\ FullPath(acts[i]) = FullPath(acts[j])
    /\ <<acts[i].Map.Selection[1].Object, acts[i].Map.Selection[1].Children[1]>>
           /= <<acts[j].Map.Selection[1].Object, acts[j].Map.Selection[1].Children[1]>>

\* path is the join of a non-empty prefix of the Dir of action
UnderPath(action, path) ==
    \E n \in 1..Len(action.Dir) : JoinPath(Prefix(action.Dir, n)) = path

\* C5: when two directory candidates that pass the Valid Directory pass have
\* the same full path p and different (source object, child index), no
\* returned action has full path p and no returned action has a Dir of which
\* p is a prefix.
C5_ConflictPropagation ==
    Returned =>
        LET valid == ValidDirectory(input)
        IN  \A i, j \in Indices(valid) :
                DirConflict(valid, i, j)
                => \A r \in Indices(actions) :
                       /\ FullPath(actions[r]) /= FullPath(valid[i])
                       /\ ~UnderPath(actions[r], FullPath(valid[i]))

\* Two directories conflict at a path, a third candidate lies in that
\* directory, and the analyzer has returned.
C5_Witness ==
    /\ Returned
    /\ LET valid == ValidDirectory(input)
       IN  \E i, j, k \in Indices(valid) :
               /\ DirConflict(valid, i, j)
               /\ ~valid[k].Map.File.IsDir
               /\ UnderPath(valid[k], FullPath(valid[i]))

(***************************************************************************)
(* C6: determinism                                                         *)
(***************************************************************************)

\* Every list the analyzer can return for acts, over all map iteration orders
\* and all tie resolutions of the sorts.
AnalyzeResults(acts) ==
    UNION {UNION {UNION {SortPass(m2) : m2 \in MergePass2(m1)} :
                      m1 \in MergePass1(Subdirectory(sorted))} :
               sorted \in ConflictingAction(ConflictingDirectory(ValidDirectory(acts)))}

\* C6: the returned list is a function of the candidate list alone: whatever
\* the map iteration orders and the tie resolutions, it is the one list fixed
\* by the input.
C6_AsClaimed ==
    Returned => actions = (CHOOSE r \in AnalyzeResults(input) : TRUE)

(***************************************************************************)
(* C7: an item is written at most once                                     *)
(***************************************************************************)

\* The positions <<action, selection, index>> of the children and of the
\* properties of a list of actions.
ChildPositions(acts) ==
    UNION {UNION {{<<i, m, n>> : n \in Indices(acts[i].Map.Selection[m].Children)} :
                      m \in Indices(acts[i].Map.Selection)} : i \in Indices(acts)}

PropPositions(acts) ==
    UNION {UNION {{<<i, m, n>> : n \in Indices(acts[i].Map.Selection[m].Properties)} :
                      m \in Indices(acts[i].Map.Selection)} : i \in Indices(acts)}

ChildAt(acts, t) ==
    <<acts[t[1]].Map.Selection[t[2]].Object, acts[t[1]].Map.Selection[t[2]].Children[t[3]]>>

PropAt(acts, t) ==
    <<acts[t[1]].Map.Selection[t[2]].Object, acts[t[1]].Map.Selection[t[2]].Properties[t[3]]>>

\* C7: in the returned list each (source object, child index) and each
\* (source object, property name) occurs at one position at most: in one
\* action, and once inside it.
C7_WrittenOnce ==
    Returned =>
        /\ \A s, t \in ChildPositions(actions) :
               ChildAt(actions, s) = ChildAt(actions, t) => s = t
        /\ \A s, t \in PropPositions(actions) :
               PropAt(actions, s) = PropAt(actions, t) => s = t

\* Two candidates select the same child for different files and a third
\* selects a property another one selects; both items are returned.
C7_Witness ==
    /\ Returned
    /\ \E i, j \in Indices(input) : \E item \in ChildItemsOf(actions) :
           /\ i /= j
           /\ FullPath(input[i]) /= FullPath(input[j])
           /\ HasChild(input[i], item[1], item[2])
           /\ HasChild(input[j], item[1], item[2])
    /\ \E i, j \in Indices(input) : \E item \in PropItemsOf(actions) :
           /\ i /= j
           /\ HasProperty(input[i], item[1], item[2])
           /\ HasProperty(input[j], item[1], item[2])

(***************************************************************************)
(* C8: the returned list is strictly ascending by full path                *)
(***************************************************************************)

\* C8: the full path strings of the returned actions are strictly ascending,
\* so no two returned actions have the same full path.
C8_AscendingPaths ==
    Returned =>
        \A r \in 1..(Len(actions) - 1) :
            StrLess(FullPath(actions[r]), FullPath(actions[r + 1]))

\* Three actions are returned, and the candidates came in descending order of
\* path.
C8_Witness ==
    /\ Returned
    /\ Len(actions) = 3
    /\ Len(input) = 3
    /\ StrLess(FullPath(input[3]), FullPath(input[2]))
    /\ StrLess(FullPath(input[2]), FullPath(input[1]))

(***************************************************************************)
(* C9: selections of a returned action                                     *)
(***************************************************************************)

\* C9: in every returned action no two selections name the same object, and
\* in every selection the child indices and the property names are strictly
\* ascending.
C9_CanonicalSelections ==
    Returned =>
        \A r \in Indices(actions) :
            LET sels == actions[r].Map.Selection
            IN  /\ \A m, n \in Indices(sels) : sels[m].Object = sels[n].Object => m = n
                /\ \A m \in Indices(sels) :
                       /\ \A k \in 1..(Len(sels[m].Children) - 1) :
                              sels[m].Children[k] < sels[m].Children[k + 1]
                       /\ \A k \in 1..(Len(sels[m].Properties) - 1) :
                              StrLess(sels[m].Properties[k], sels[m].Properties[k + 1])

\* A returned selection holds two children and two properties that the
\* candidates gave in descending order.
C9_Witness ==
    /\ Returned
    /\ Len(input) >= 2
    /\ HasChild(input[1], "R", 1) /\ HasProperty(input[1], "R", PropQ)
    /\ \E r \in Indices(actions) : \E m \in Indices(actions[r].Map.Selection) :
           /\ actions[r].Map.Selection[m].Children = <<0, 1>>
           /\ actions[r].Map.Selection[m].Properties = <<PropP, PropQ>>

(***************************************************************************)
(* C10: merging loses and invents nothing                                  *)
(***************************************************************************)

ChildrenOf(acts, obj) == {item[2] : item \in {x \in ChildItemsOf(acts) : x[1] = obj}}

PropertiesOf(acts, obj) == {item[2] : item \in {x \in PropItemsOf(acts) : x[1] = obj}}

HasItems(action) == ChildItemsOf(<<action>>) /= {} \/ PropItemsOf(<<action>>) /= {}

\* All candidates are files in the place root directory and no two of them
\* select the same item.
RootFilesDisjoint ==
    /\ \A i \in Indices(input) : input[i].Dir = RootDir /\ ~input[i].Map.File.IsDir
    /\ \A i, j \in Indices(input) :
           i /= j =>
               /\ ChildItemsOf(<<input[i]>>) \cap ChildItemsOf(<<input[j]>>) = {}
               /\ PropItemsOf(<<input[i]>>) \cap PropItemsOf(<<input[j]>>) = {}

\* The candidates of file name name, as a list.
Named(name) == SelectSeq(input, LAMBDA a : a.Map.File.Name = name)

\* The returned list has exactly one action of file name name, in the root
\* directory, and for each object it holds exactly what the candidates of that
\* name selected from the object.
MergedExactly(name) ==
    /\ Cardinality({r \in Indices(actions) : actions[r].Map.File.Name = name}) = 1
    /\ \A r \in Indices(actions) :
           actions[r].Map.File.Name = name
           => /\ actions[r].Dir = RootDir
              /\ \A obj \in Objects :
                     /\ ChildrenOf(<<actions[r]>>, obj) = ChildrenOf(Named(name), obj)
                     /\ PropertiesOf(<<actions[r]>>, obj) = PropertiesOf(Named(name), obj)

\* C10 as stated: under RootFilesDisjoint the returned list has exactly one
\* action for each file name of a candidate, holding the union of what the
\* candidates of that name select, and no other action.
C10_AsClaimed ==
    (Returned /\ RootFilesDisjoint) =>
        /\ \A i \in Indices(input) : MergedExactly(input[i].Map.File.Name)
        /\ \A r \in Indices(actions) :
               \E i \in Indices(input) : input[i].Map.File.Name = actions[r].Map.File.Name

\* C10 (amended): under RootFilesDisjoint the returned list has exactly one
\* action for each file name under which some candidate selects at least one
\* item, holding the union of what the candidates of that name select, and no
\* other action.
C10_MergeExact ==
    (Returned /\ RootFilesDisjoint) =>
        /\ \A i \in Indices(input) :
               HasItems(input[i]) => MergedExactly(input[i].Map.File.Name)
        /\ \A r \in Indices(actions) :
               \E i \in Indices(input) :
                   HasItems(input[i]) /\ input[i].Map.File.Name = actions[r].Map.File.Name

\* Three candidates of one file name select different items of R, and the one
\* returned action holds them all.
C10_Witness ==
    /\ Returned
    /\ RootFilesDisjoint
    /\ Len(input) = 3
    /\ \A i \in Indices(input) : HasItems(input[i]) /\ input[i].Map.File.Name = NameB
    /\ Len(actions) = 1
    /\ ChildrenOf(actions, "R") = {0, 1}
    /\ PropertiesOf(actions, "R") = {PropP, PropQ}

(***************************************************************************)
(***************************************************************************)
(* Sync-in of one place directory (src/unnamed/part_001, part_002)         *)
(***************************************************************************)
(***************************************************************************)

\* InSelection (part_002 1241-1247).  Values maps a property name to the
\* index of a value; NilValues tells the nil map, which can be read but not
\* written, from an empty one.
InSelection(file, ignore, children, properties, values, nilValues) ==
    [File |-> file, Ignore |-> ignore, Children |-> children,
     Properties |-> properties, Values |-> values, NilValues |-> nilValues]

NoValues == [k \in {} |-> 0]

InAction(depth, dir, selection) == [Depth |-> depth, Dir |-> dir, Selection |-> selection]

OrderedInAction(priority, action) == [Priority |-> priority, Action |-> action]

(***************************************************************************)
(* Conflicting Action pass of syncInAnalyzeActions (part_001 127-224)      *)
(***************************************************************************)

\* The single-item actions the three loops store.
InChildItemAction(i, action, sel, child) ==
    OrderedInAction(i,
        InAction(action.Depth, action.Dir,
            <<InSelection(sel.File, sel.Ignore, <<child>>, <<>>, NoValues, TRUE)>>))

InPropItemAction(i, action, sel, prop) ==
    OrderedInAction(i,
        InAction(action.Depth, action.Dir,
            <<InSelection(sel.File, sel.Ignore, <<>>, <<prop>>, NoValues, TRUE)>>))

InValueItemAction(i, action, sel, prop) ==
    OrderedInAction(i,
        InAction(action.Depth, action.Dir,
            <<InSelection(sel.File, sel.Ignore, <<>>, <<>>,
                          [k \in {prop} |-> sel.Values[prop]], FALSE)>>))

\* The children the loops visit, in visiting order, each as the entry the loop
\* would store (priority i is the 0-based index of the action).
InChildVisits(acts) ==
    Concat([n \in 1..Len(acts) |->
        Concat([m \in 1..Len(acts[n].Selection) |->
            LET sel == acts[n].Selection[m]
            IN  [k \in 1..Len(sel.Children) |->
                    InChildItemAction(n - 1, acts[n], sel, sel.Children[k])]])])

\* The properties and values the loops visit: of each selection the named
\* properties first, then the keys of Values (distinct keys of one map, so
\* the order in which the range yields them changes nothing).
InPropVisits(acts) ==
    Concat([n \in 1..Len(acts) |->
        Concat([m \in 1..Len(acts[n].Selection) |->
            LET sel == acts[n].Selection[m]
                keys == SetToSeq(DOMAIN sel.Values)
            IN  [k \in 1..Len(sel.Properties) |->
                    InPropItemAction(n - 1, acts[n], sel, sel.Properties[k])]
                \o [k \in 1..Len(keys) |->
                    InValueItemAction(n - 1, acts[n], sel, keys[k])]])])

\* a key that tells the depths of the actions apart
inChildItemPerDepth(entry) ==
    <<JoinPath(<<JoinPath(entry.Action.Dir), entry.Action.Selection[1].File>>),
      entry.Action.Selection[1].Children[1], entry.Action.Depth>>

\* childItem{path, child}: path is filepath.Join(dir, selection.File)
inChildItem(entry) ==
    <<JoinPath(<<JoinPath(entry.Action.Dir), entry.Action.Selection[1].File>>),
      entry.Action.Selection[1].Children[1]>>

\* propItem{dir, prop}, for a named property and for a key of Values alike
inPropItem(entry) ==
    LET sel == entry.Action.Selection[1]
    IN  <<JoinPath(entry.Action.Dir),
          IF sel.Properties /= <<>> THEN sel.Properties[1]
          ELSE CHOOSE k \in DOMAIN sel.Values : TRUE>>

\* a test that lets the latter action always override
InKeepsExistingNever(existing, entry) == FALSE

\* "Do not override if existing action is deeper."
InKeepsExisting(existing, entry) == existing.Action.Depth > entry.Action.Depth

RECURSIVE InChildrenMap(_, _)
InChildrenMap(visits, map) ==
    IF visits = <<>> THEN map
    ELSE LET entry == Head(visits)
             item == inChildItem(entry)
         IN  InChildrenMap(Tail(visits),
                 IF item \in DOMAIN map /\ InKeepsExisting(map[item], entry)
                 THEN map
                 ELSE Put(map, item, entry))

RECURSIVE InPropertiesMap(_, _)
InPropertiesMap(visits, map) ==
    IF visits = <<>> THEN map
    ELSE LET entry == Head(visits)
             item == inPropItem(entry)
         IN  InPropertiesMap(Tail(visits),
                 IF item \in DOMAIN map /\ InKeepsExisting(map[item], entry)
                 THEN map
                 ELSE Put(map, item, entry))

\* SortInActionsByDepth.Less (part_001 89-94)
SortInActionsByDepthLess(x, y) ==
    IF x.Action.Depth = y.Action.Depth
    THEN x.Priority < y.Priority
    ELSE x.Action.Depth < y.Action.Depth

\* The entries of both maps: the winners of the pass.
InOverrideWinners(acts) ==
    LET children == InChildrenMap(InChildVisits(acts), NoItems)
        properties == InPropertiesMap(InPropVisits(acts), NoItems)
    IN  {children[k] : k \in DOMAIN children} \cup {properties[k] : k \in DOMAIN properties}

\* The lists the pass can leave: the winners sorted by depth, then priority;
\* winners of one action tie and come out in any order.
InSortByDepth(s) ==
    SortOrders(s,
        [i \in 1..Len(s) |->
            Cardinality({j \in 1..Len(s) : SortInActionsByDepthLess(s[j], s[i])})])

InConflictingAction(acts) ==
    {[k \in 1..Len(sorted) |-> sorted[k].Action] :
        sorted \in InSortByDepth(SetToSeq(InOverrideWinners(acts)))}

(***************************************************************************)
(* Merge pass 1 of syncInAnalyzeActions (part_001 226-245)                 *)
(***************************************************************************)

\* The combine map as the list of its values, in order of first insertion:
\* the first action of a directory takes the selections of the later ones.
RECURSIVE InCombineByDir(_, _)
InCombineByDir(acts, combined) ==
    IF acts = <<>> THEN combined
    ELSE LET action == Head(acts)
             dir == JoinPath(action.Dir)
             found == {i \in 1..Len(combined) : JoinPath(combined[i].Dir) = dir}
         IN  InCombineByDir(Tail(acts),
                 IF found /= {}
                 THEN LET i == CHOOSE i \in found : TRUE
                      IN  [combined EXCEPT ![i].Selection = @ \o action.Selection]
                 ELSE Append(combined, action))

InMergePass1(acts) == MapOrders(InCombineByDir(acts, <<>>))

(***************************************************************************)
(* Merge pass 2 of syncInAnalyzeActions (part_001 247-277)                 *)
(***************************************************************************)

\* selItem{file, ignore}
selItem(sel) == <<sel.File, sel.Ignore>>

\* a merge that leaves the values of the later selections out
MergeValuesDropped(existing, sel) == existing.Values

\* "for key, value := range selection.Values { c.Values[key] = value }"
MergeValues(existing, sel) ==
    [k \in DOMAIN existing.Values \cup DOMAIN sel.Values |->
        IF k \in DOMAIN sel.Values THEN sel.Values[k] ELSE existing.Values[k]]

\* The assignment to an entry of a nil map panics.
MergeValuesPanics(existing, sel) == existing.NilValues /\ DOMAIN sel.Values /= {}

\* The combine map of one action as the list of its values, in order of first
\* insertion, and whether building it panicked.
RECURSIVE InCombineBySource(_, _)
InCombineBySource(sels, combined) ==
    IF sels = <<>> THEN [panic |-> FALSE, sels |-> combined]
    ELSE LET sel == Head(sels)
             found == {i \in 1..Len(combined) : selItem(combined[i]) = selItem(sel)}
         IN  IF found = {}
             THEN InCombineBySource(Tail(sels), Append(combined, sel))
             ELSE LET i == CHOOSE i \in found : TRUE
                  IN  IF MergeValuesPanics(combined[i], sel)
                      THEN [panic |-> TRUE, sels |-> combined]
                      ELSE InCombineBySource(Tail(sels),
                               [combined EXCEPT
                                   ![i].Children = @ \o sel.Children,
                                   ![i].Properties = @ \o sel.Properties,
                                   ![i].Values = MergeValues(combined[i], sel)])

InMergePass2Panics(acts) ==
    \E i \in 1..Len(acts) : InCombineBySource(acts[i].Selection, <<>>).panic

InMergePass2(acts) ==
    Choices([i \in 1..Len(acts) |->
        {[acts[i] EXCEPT !.Selection = sels] :
            sels \in MapOrders(InCombineBySource(acts[i].Selection, <<>>).sels)}])

(***************************************************************************)
(* Sort pass of syncInAnalyzeActions (part_001 279-292)                    *)
(***************************************************************************)

\* an order of the selections by file name alone
SortInSelectionsByFileLess(x, y) == StrLess(x.File, y.File)

\* SortInSelections.Less (part_001 116-121)
SortInSelectionsLess(x, y) ==
    IF x.File = y.File
    THEN ~x.Ignore /\ y.Ignore
    ELSE StrLess(x.File, y.File)

\* a comparison that puts the greater path first
SortInActionsByDirGreater(x, y) == StrLess(JoinPath(y.Dir), JoinPath(x.Dir))

\* SortInActionsByDir.Less (part_001 104-106)
SortInActionsByDirLess(x, y) == StrLess(JoinPath(x.Dir), JoinPath(y.Dir))

InSortItems(sels) ==
    [i \in 1..Len(sels) |->
        [sels[i] EXCEPT !.Children = SortInts(@), !.Properties = SortStrings(@)]]

InSortSelections(s) ==
    SortOrders(s,
        [i \in 1..Len(s) |->
            Cardinality({j \in 1..Len(s) : SortInSelectionsLess(s[j], s[i])})])

InSortByDir(s) ==
    SortOrders(s,
        [i \in 1..Len(s) |->
            Cardinality({j \in 1..Len(s) : SortInActionsByDirLess(s[j], s[i])})])

InSortPass(acts) ==
    UNION {InSortByDir(sorted) :
        sorted \in Choices([i \in 1..Len(acts) |->
            {[acts[i] EXCEPT !.Selection = sels] :
                sels \in InSortSelections(InSortItems(acts[i].Selection))}])}

(***************************************************************************)
(* File-name patterns: ArgFileName.Match (argtypes.go 138-187)             *)
(***************************************************************************)

Star == <<42>>
Backslash == <<92>>
Dot == <<46>>

HasPrefix(str, prefix) ==
    Len(prefix) <= Len(str) /\ SubSeq(str, 1, Len(prefix)) = prefix

\* str[n:], n counted from 0
From(str, n) == SubSeq(str, n + 1, Len(str))

\* a cut of one leading star only
TrimStarsOnce(arg) == IF arg /= <<>> /\ Head(arg) = Star[1] THEN Tail(arg) ELSE arg

\* The pattern without its leading stars.
RECURSIVE TrimStars(_)
TrimStars(arg) ==
    IF arg /= <<>> /\ Head(arg) = Star[1] THEN TrimStars(Tail(arg)) ELSE arg

\* The loop that reads one chunk of the pattern from offset i on: the literal
\* text up to the next unescaped star, the offset it stops at, and whether
\* the pattern ends in a lone backslash.
RECURSIVE ReadChunk(_, _, _)
ReadChunk(arg, i, ch) ==
    IF i >= Len(arg) THEN [bad |-> FALSE, i |-> i, chunk |-> ch]
    ELSE IF arg[i + 1] = Backslash[1]
         THEN IF i + 1 >= Len(arg)
              THEN [bad |-> TRUE, i |-> i + 1, chunk |-> ch]
              ELSE ReadChunk(arg, i + 2, Append(ch, arg[i + 2]))
         ELSE IF arg[i + 1] = Star[1]
              THEN [bad |-> FALSE, i |-> i, chunk |-> ch]
              ELSE ReadChunk(arg, i + 1, Append(ch, arg[i + 1]))

\* One turn of the loop labelled Pattern, and the turns after it.
RECURSIVE MatchPattern(_, _)
MatchPattern(arg, name) ==
    IF arg = <<>> THEN name = <<>>
    ELSE LET star == Head(arg) = Star[1]
             read == ReadChunk(TrimStars(arg), 0, <<>>)
             chunk == read.chunk
             rest == From(TrimStars(arg), read.i)
             \* the offsets i of the inner loop at which it leaves the loop
             hits == {k \in 0..(Len(name) - 1) :
                         /\ HasPrefix(From(name, k + 1), chunk)
                         /\ ~(rest = <<>> /\ Len(From(name, k + 1 + Len(chunk))) > 0)}
         IN  IF read.bad THEN FALSE
             ELSE IF star /\ chunk = <<>> THEN TRUE
             ELSE IF HasPrefix(name, chunk) /\ (Len(name) = Len(chunk) \/ Len(rest) > 0)
                  THEN MatchPattern(rest, From(name, Len(chunk)))
             ELSE IF star /\ hits /= {}
                  THEN LET k == CHOOSE k \in hits : \A h \in hits : k <= h
                       IN  MatchPattern(rest, From(name, k + 1 + Len(chunk)))
             ELSE FALSE

Match(arg, name) == IF arg = Star THEN TRUE ELSE MatchPattern(arg, name)

(***************************************************************************)
(* The place directory that is synced in.  Its root holds a model file     *)
(* with two objects, a file of two named properties, the file that the     *)
(* out filter PropertyName(txt) writes for property P, a file that fails   *)
(* to decode, and a directory with aux data, which holds a model file of   *)
(* the same name as the one of the root.                                   *)
(***************************************************************************)

Txt == <<116, 120, 116>>

\* "file := name + "." + ext" of the out filter PropertyName
OutPropertyNameFile(name, ext) == name \o Dot \o ext

\* The extensions that GetFormatFromExt knows (formats.go 18-41): rbxm, rbxmx,
\* rbxl, rbxlx, json, xml, bin, lua, txt.
Rbxm == <<114, 98, 120, 109>>
Json == <<106, 115, 111, 110>>
FormatExts ==
    {Rbxm, <<114, 98, 120, 109, 120>>, <<114, 98, 120, 108>>, <<114, 98, 120, 108, 120>>, Json, <<120, 109, 108>>, <<98, 105, 110>>, <<108, 117, 97>>, Txt}

\* m.rbxm, j.json, x.rbxm, P.txt
FileModel == <<109>> \o Dot \o Rbxm
FileProps == <<106>> \o Dot \o Json
FileBad == <<120>> \o Dot \o Rbxm
FileValue == OutPropertyNameFile(PropP, Txt)

\* ItemSource (part_002 1228-1236), without References: no property of the
\* place is an unresolved reference.
ItemSource(children, properties, values) ==
    [Children |-> children, Properties |-> properties, Values |-> values]

NoSource == ItemSource(<<>>, {}, <<>>)

\* SourceCacheItem
SourceCacheItem(isDir, source) == [IsDir |-> isDir, Source |-> source]

\* An entry of the file system: the directory it is in, its name, whether it
\* is a directory, what Format.Decode makes of it (Fails: Decode returns an
\* error), and for a directory the class name of its aux data.
Entry(dir, name, isDir, fails, source, class) ==
    [Dir |-> dir, Name |-> name, IsDir |-> isDir, Fails |-> fails,
     Source |-> source, ClassName |-> class]

Folder == <<70>>

\* The objects, and the property values, that the decoders and CallIn make:
\* told apart by the file they come from and their place in it.
Instance(relname, index) == [Source |-> relname, Index |-> index]

Value(relname, prop, index) == [Source |-> relname, Prop |-> prop, Index |-> index]

PlaceEntries ==
    {Entry(<<>>, FileModel, FALSE, FALSE,
           ItemSource(<<Instance(FileModel, 0), Instance(FileModel, 1)>>, {}, <<>>), <<>>),
     Entry(<<>>, FileProps, FALSE, FALSE, ItemSource(<<>>, {PropP, PropQ}, <<>>), <<>>),
     Entry(<<>>, FileValue, FALSE, FALSE,
           ItemSource(<<>>, {}, <<Value(FileValue, <<>>, 0)>>), <<>>),
     Entry(<<>>, FileBad, FALSE, TRUE, NoSource, <<>>),
     Entry(<<>>, NameA, TRUE, FALSE, NoSource, Folder),
     Entry(<<NameA>>, FileModel, FALSE, FALSE,
           ItemSource(<<Instance(JoinPath(<<NameA, FileModel>>), 0)>>, {}, <<>>), <<>>)}

\* the name of an entry relative to the place directory
RelName(e) == JoinPath(<<JoinPath(e.Dir), e.Name>>)

EntryAt(relname) == CHOOSE e \in PlaceEntries : RelName(e) = relname

FilePaths == {RelName(e) : e \in PlaceEntries}

\* ioutil.ReadDir: the entries of a directory, sorted by file name.
ReadDir(path) ==
    LET names == SortStrings(SetToSeq({e.Name : e \in {x \in PlaceEntries : JoinPath(x.Dir) = path}}))
    IN  [k \in 1..Len(names) |-> EntryAt(JoinPath(<<path, names[k]>>))]

\* the object that CallIn makes for a directory
DirInstance(relname) == Instance(relname, 0)

\* the DataModel that the executor makes
DataModel == Instance(<<>>, -1)

(***************************************************************************)
(* Rule pairs and the default in-rule functions (part_002 1659-1824)       *)
(***************************************************************************)

ruleFunc(name, args) == [Name |-> name, Args |-> args]

rulePair(depth, syncType, pattern, filter) ==
    [Depth |-> depth, SyncType |-> syncType, Pattern |-> pattern, Filter |-> filter]

\* ArgClass: a class name that is Any or a literal, and NoSub
ArgClass(any, literal, noSub) == [Any |-> any, Literal |-> literal, NoSub |-> noSub]

AnyClass == ArgClass(TRUE, <<>>, FALSE)

InPatternNames == {"File", "Directory"}
InFilterNames == {"Children", "Properties", "Property", "PropertyName", "Ignore"}

\* In-pattern File: the files of the directory whose names match.
InPatternFile(args, path) ==
    LET files == ReadDir(path)
    IN  SelectSeq([k \in 1..Len(files) |-> files[k]],
                  LAMBDA f : ~f.IsDir /\ Match(args[1], f.Name))

\* In-pattern Directory: the directories of the directory whose names match
\* and, unless the class is Any, whose aux data names the class (the place
\* has no class that inherits from another).
InPatternDirectory(args, path) ==
    LET files == ReadDir(path)
    IN  SelectSeq([k \in 1..Len(files) |-> files[k]],
                  LAMBDA f : /\ f.IsDir
                             /\ args[1].Any \/ (f.ClassName /= <<>> /\ f.ClassName = args[1].Literal)
                             /\ Match(args[2], f.Name))

InPattern(pattern, path) ==
    LET found == IF pattern.Name = "File" THEN InPatternFile(pattern.Args, path)
                 ELSE InPatternDirectory(pattern.Args, path)
    IN  [k \in 1..Len(found) |-> found[k].Name]

\* filepath.Base of a path that does not end in a separator: what follows
\* its last separator.
RECURSIVE Base(_)
Base(path) ==
    IF \E k \in 1..Len(path) : path[k] = Separator[1]
    THEN Base(Tail(path))
    ELSE path

\* The name that the in filter PropertyName gives the value of a file.
PropertyNameOf(file) == Base(file)

FilterResult(is, err) == [is |-> is, err |-> err]

\* SourceMap: a file name with its cache item
SourceMap(file, item) == [File |-> file, IsDir |-> item.IsDir, Source |-> item.Source]

\* The in filters.  Each returns the set of its possible results: Properties
\* ranges over a map, so the order of the names it lists is any.
InFilterChildren(sm) ==
    IF \E k \in 1..Len(sm) : sm[k].Source.Properties /= {} \/ sm[k].Source.Values /= <<>>
    THEN {FilterResult(<<>>, "incompatible")}
    ELSE {FilterResult(
            [k \in 1..Len(sm) |->
                InSelection(sm[k].File, FALSE,
                    [j \in 1..Len(sm[k].Source.Children) |-> j - 1], <<>>, NoValues, TRUE)],
            "nil")}

InFilterProperties(sm) ==
    IF \E k \in 1..Len(sm) : sm[k].Source.Children /= <<>> \/ sm[k].Source.Values /= <<>>
    THEN {FilterResult(<<>>, "incompatible")}
    ELSE {FilterResult(
            [k \in 1..Len(sm) |->
                InSelection(sm[k].File, FALSE, <<>>, names[k], NoValues, TRUE)],
            "nil") :
          names \in Choices([k \in 1..Len(sm) |->
                                 MapOrders(SetToSeq(sm[k].Source.Properties))])}

InFilterProperty(args, sm) ==
    IF Len(sm) /= 1 THEN {FilterResult(<<>>, "notOneFile")}
    ELSE IF \/ sm[1].Source.Children /= <<>>
            \/ sm[1].Source.Properties /= {}
            \/ Len(sm[1].Source.Values) /= 1
    THEN {FilterResult(<<>>, "notOneValue")}
    ELSE {FilterResult(
            <<InSelection(sm[1].File, FALSE, <<>>, <<>>, [k \in {args[1]} |-> 0], FALSE)>>,
            "nil")}

InFilterPropertyName(sm) ==
    IF \E k \in 1..Len(sm) :
           \/ sm[k].Source.Children /= <<>>
           \/ sm[k].Source.Properties /= {}
           \/ Len(sm[k].Source.Values) /= 1
    THEN {FilterResult(<<>>, "notOneValue")}
    ELSE {FilterResult(
            [k \in 1..Len(sm) |->
                InSelection(sm[k].File, FALSE, <<>>, <<>>,
                    [n \in {PropertyNameOf(sm[k].File)} |-> 0], FALSE)],
            "nil")}

InFilterIgnore(sm) ==
    {FilterResult(
        [k \in 1..Len(sm) |-> InSelection(sm[k].File, TRUE, <<>>, <<>>, NoValues, TRUE)],
        "nil")}

InFilter(filter, sm) ==
    CASE filter.Name = "Children" -> InFilterChildren(sm)
      [] filter.Name = "Properties" -> InFilterProperties(sm)
      [] filter.Name = "Property" -> InFilterProperty(filter.Args, sm)
      [] filter.Name = "PropertyName" -> InFilterPropertyName(sm)
      [] filter.Name = "Ignore" -> InFilterIgnore(sm)

(***************************************************************************)
(* CallIn (part_002 1316-1405)                                             *)
(***************************************************************************)

\* filepath.Ext without its dot: what follows the last dot of the name, or
\* nothing when the name has no dot.
Ext(name) ==
    LET dots == {k \in 1..Len(name) : name[k] = Dot[1]}
    IN  IF dots = {} THEN <<>>
        ELSE From(name, CHOOSE k \in dots : \A h \in dots : h <= k)

\* a cache that forgets what it is given
PutCacheNever(map, relname, item) == map

\* "cache[relname] = scItem"
PutCache(map, relname, item) == Put(map, relname, item)

\* The loop over the selected names.  st is the state it threads: the cache,
\* the Decode calls made, the files that failed and the source maps.
RECURSIVE CallInSources(_, _, _)
CallInSources(subdir, names, st) ==
    IF names = <<>> THEN st
    ELSE LET name == Head(names)
             relname == JoinPath(<<subdir, name>>)
             e == EntryAt(relname)
             next ==
                 IF relname \in DOMAIN st.cache
                 THEN [st EXCEPT !.sm = Append(@, SourceMap(name, st.cache[relname]))]
                 ELSE IF e.IsDir
                 THEN \* (the aux data of every directory of the place can be read)
                      LET item == SourceCacheItem(TRUE,
                                      ItemSource(<<DirInstance(relname)>>, {}, <<>>))
                      IN  [st EXCEPT !.cache = PutCache(@, relname, item),
                                     !.sm = Append(@, SourceMap(name, item))]
                 ELSE IF Ext(name) \notin FormatExts
                 THEN [st EXCEPT !.errs = Append(@, relname)]
                 ELSE IF e.Fails
                 THEN [st EXCEPT !.decodes[relname] = @ + 1,
                                 !.errs = Append(@, relname)]
                 ELSE LET item == SourceCacheItem(FALSE, e.Source)
                      IN  [st EXCEPT !.decodes[relname] = @ + 1,
                                     !.cache = PutCache(@, relname, item),
                                     !.sm = Append(@, SourceMap(name, item))]
         IN  CallInSources(subdir, Tail(names), next)

CallInResult(is, err, st) ==
    [is |-> is, err |-> err, cache |-> st.cache, decodes |-> st.decodes]

\* The possible results of CallIn for one rule pair in one directory, given
\* the cache and the Decode calls made so far.
CallIn(pair, subdir, st) ==
    IF pair.SyncType /= "in" THEN {CallInResult(<<>>, "ErrSyncPair", st)}
    ELSE IF pair.Pattern.Name \notin InPatternNames \/ pair.Filter.Name \notin InFilterNames
    THEN {CallInResult(<<>>, "ErrUnknownSyncFunc", st)}
    ELSE LET sfile == InPattern(pair.Pattern, subdir)
             read == CallInSources(subdir, sfile,
                         [cache |-> st.cache, decodes |-> st.decodes, errs |-> <<>>, sm |-> <<>>])
         IN  IF sfile = <<>> THEN {CallInResult(<<>>, "nil", st)}
             ELSE IF read.errs /= <<>> THEN {CallInResult(<<>>, "ErrsFile", read)}
             ELSE {CallInResult(r.is, IF r.err = "nil" THEN "nil" ELSE "ErrSyncFunc", read) :
                       r \in InFilter(pair.Filter, read.sm)}

(***************************************************************************)
(* The planner, syncInReadDir (part_001 24-77)                             *)
(***************************************************************************)

ReadDirState(acts, children, err, st) ==
    [actions |-> acts, children |-> children, err |-> err,
     cache |-> st.cache, decodes |-> st.decodes]

\* a scan that does not count the children of the selection
IsDirSelectionOfAnyLength(jdir, sel, cacheNow) ==
    /\ ~sel.Ignore
    /\ JoinPath(<<jdir, sel.File>>) \in DOMAIN cacheNow
    /\ cacheNow[JoinPath(<<jdir, sel.File>>)].IsDir

\* "Scan for directories."
IsDirSelection(jdir, sel, cacheNow) ==
    /\ ~sel.Ignore /\ Len(sel.Children) = 1
    /\ JoinPath(<<jdir, sel.File>>) \in DOMAIN cacheNow
    /\ cacheNow[JoinPath(<<jdir, sel.File>>)].IsDir

\* What one turn of the loop over the rules makes of a result of CallIn: the
\* first error ends the function, which then returns no action at all.
AfterRule(subdir, pair, st, r) ==
    IF r.err /= "nil" THEN ReadDirState(<<>>, st.children, "ErrReadDir", r)
    ELSE ReadDirState(
             st.actions \o [k \in 1..Len(r.is) |-> InAction(pair.Depth, subdir, <<r.is[k]>>)],
             st.children \cup {r.is[k].File : k \in
                 {j \in 1..Len(r.is) : IsDirSelection(JoinPath(subdir), r.is[j], r.cache)}},
             "nil", r)

RECURSIVE ReadDirRules(_, _, _)
ReadDirRules(subdir, rs, st) ==
    IF rs = <<>> \/ st.err /= "nil" THEN {st}
    ELSE UNION {ReadDirRules(subdir, Tail(rs), AfterRule(subdir, Head(rs), st, r)) :
                    r \in CallIn(Head(rs), JoinPath(subdir), st)}

RECURSIVE syncInReadDir(_, _, _)
RECURSIVE ReadSubdirs(_, _, _, _)

\* The loop over the sorted names of the directories found.
ReadSubdirs(subdir, names, rs, st) ==
    IF names = <<>> \/ st.err /= "nil" THEN {st}
    ELSE UNION {ReadSubdirs(subdir, Tail(names), rs,
                    IF a.err /= "nil" THEN ReadDirState(<<>>, st.children, "ErrReadDir", a)
                    ELSE ReadDirState(st.actions \o a.actions, st.children, "nil", a)) :
                a \in syncInReadDir(Append(subdir, Head(names)), rs, st)}

\* The possible results of syncInReadDir for a directory: the candidate
\* actions or the error, with the cache and the Decode calls it leaves.
syncInReadDir(subdir, rs, st) ==
    UNION {ReadSubdirs(subdir, SortStrings(SetToSeq(own.children)), rs, own) :
               own \in ReadDirRules(subdir, rs, ReadDirState(<<>>, {}, "nil", st))}

(***************************************************************************)
(* The executor, syncInApplyActions (part_001 309-374)                     *)
(***************************************************************************)

\* the nil *rbxfile.Instance
NilInstance == Instance(<<>>, -2)

Instances ==
    {DataModel}
    \cup {DirInstance(RelName(e)) : e \in {x \in PlaceEntries : x.IsDir}}
    \cup UNION {{e.Source.Children[k] : k \in 1..Len(e.Source.Children)} : e \in PlaceEntries}

\* The tree under construction: the dir map, for every object its parent, its
\* children and its properties, and the number of SetParent calls made on it.
NewTree ==
    [dirMap |-> [k \in {<<>>} |-> DataModel],
     parent |-> [o \in Instances |-> NilInstance],
     children |-> [o \in Instances |-> <<>>],
     properties |-> [o \in Instances |-> NoValues],
     moves |-> [o \in Instances |-> 0],
     applied |-> 0]

Without(seq, x) == SelectSeq(seq, LAMBDA y : y /= x)

\* rbxfile's Instance.SetParent: nothing if the parent is the same; else the
\* object leaves the children of its old parent and joins those of the new.
SetParent(tree, obj, parent) ==
    IF tree.parent[obj] = parent THEN [tree EXCEPT !.moves[obj] = @ + 1]
    ELSE LET old == tree.parent[obj]
             left == IF old = NilInstance THEN tree.children
                     ELSE [tree.children EXCEPT ![old] = Without(@, obj)]
         IN  [tree EXCEPT !.moves[obj] = @ + 1,
                          !.parent[obj] = parent,
                          !.children = IF parent = NilInstance THEN left
                                       ELSE [left EXCEPT ![parent] = Append(@, obj)]]

RECURSIVE SetParents(_, _, _)
SetParents(tree, objs, parent) ==
    IF objs = <<>> THEN tree
    ELSE SetParents(SetParent(tree, Head(objs), parent), Tail(objs), parent)

\* cache[path]: the zero item, with a nil Source, for a path not in the cache
CacheItem(cacheNow, path) ==
    IF path \in DOMAIN cacheNow THEN [found |-> TRUE, item |-> cacheNow[path]]
    ELSE [found |-> FALSE, item |-> SourceCacheItem(FALSE, NoSource)]

\* The body of the loop for one selection faults: an index out of range, a
\* nil Source, or a property set on a nil parent.
ApplySelectionPanics(tree, cacheNow, action, sel) ==
    LET subdir == JoinPath(action.Dir)
        path == JoinPath(<<subdir, sel.File>>)
        source == CacheItem(cacheNow, path)
        n == Len(source.item.Source.Children)
    IN  /\ ~sel.Ignore
        /\ \/ source.item.IsDir /\ (sel.Children = <<>> \/ sel.Children[1] \notin 0..(n - 1))
           \/ \E k \in 1..Len(sel.Children) : sel.Children[k] \notin 0..(n - 1)
           \/ sel.Properties /= <<>> /\ ~source.found
           \/ (sel.Properties /= <<>> \/ DOMAIN sel.Values /= {}) /\ subdir \notin DOMAIN tree.dirMap
           \/ \E k \in DOMAIN sel.Values :
                  sel.Values[k] \notin 0..(Len(source.item.Source.Values) - 1)

\* The tree after the body of the loop for one selection that does not fault.
ApplySelection(tree, cacheNow, action, sel) ==
    LET subdir == JoinPath(action.Dir)
        path == JoinPath(<<subdir, sel.File>>)
        source == CacheItem(cacheNow, path).item
        mapped == IF source.IsDir
                  THEN [tree EXCEPT !.dirMap = Put(@, path, source.Source.Children[sel.Children[1] + 1])]
                  ELSE tree
        parent == IF subdir \in DOMAIN mapped.dirMap THEN mapped.dirMap[subdir] ELSE NilInstance
        adopted == SetParents(mapped,
                       [k \in 1..Len(sel.Children) |-> source.Source.Children[sel.Children[k] + 1]],
                       parent)
        named == [k \in {sel.Properties[j] : j \in 1..Len(sel.Properties)} |->
                     Value(path, k, -1)]
        valued == [k \in DOMAIN sel.Values |-> source.Source.Values[sel.Values[k] + 1]]
    IN  IF sel.Ignore THEN tree
        ELSE IF parent = NilInstance THEN adopted
        ELSE [adopted EXCEPT !.properties[parent] =
                 [k \in DOMAIN @ \cup DOMAIN named \cup DOMAIN valued |->
                     IF k \in DOMAIN valued THEN valued[k]
                     ELSE IF k \in DOMAIN named THEN named[k]
                     ELSE @[k]]]

\* The selections of a list of actions in the order the loops reach them, each
\* as <<index of the action, index of the selection>>.
ApplyOrder(acts) ==
    Concat([a \in 1..Len(acts) |-> [k \in 1..Len(acts[a].Selection) |-> <<a, k>>]])

(***************************************************************************)
(* Rule lists.  The pairs are in-rules of the default functions over the   *)
(* files of the place, at the depths of the global and the project rule    *)
(* file, and one out-rule; a list holds them in any order.                 *)
(***************************************************************************)

MaxRules == 3

InRule(depth, pattern, filter) == rulePair(depth, "in", pattern, filter)

FilePattern(glob) == ruleFunc("File", <<glob>>)
DirectoryPattern(glob) == ruleFunc("Directory", <<AnyClass, glob>>)
Filter(name) == ruleFunc(name, <<>>)

InRuleCandidates ==
    {InRule(depth, FilePattern(FileModel), Filter(name)) :
         depth \in {GlobalDepth, ProjectDepth}, name \in {"Children", "Ignore"}}
    \cup {InRule(depth, FilePattern(FileValue), ruleFunc("Property", <<PropP>>)) :
         depth \in {GlobalDepth, ProjectDepth}}
    \cup {InRule(depth, FilePattern(FileProps), Filter("Properties")) :
         depth \in {GlobalDepth, ProjectDepth}}
    \cup {InRule(GlobalDepth, FilePattern(Star \o Dot \o Txt), Filter("PropertyName")),
          InRule(GlobalDepth, FilePattern(Star \o Dot \o Json), Filter("Ignore")),
          InRule(GlobalDepth, DirectoryPattern(Star), Filter("Children")),
          InRule(ProjectDepth, DirectoryPattern(NameA), Filter("Ignore")),
          InRule(GlobalDepth, FilePattern(FileBad), Filter("Children")),
          InRule(ProjectDepth, FilePattern(FileProps), Filter("Children")),
          rulePair(GlobalDepth, "out", ruleFunc("Child", <<AnyClass>>), ruleFunc("Directory", <<>>))}

RuleLists == UNION {[1..n -> InRuleCandidates] : n \in 0..MaxRules}

(***************************************************************************)
(* The sync-in of the place as a state machine: the planner, one action    *)
(* per pass of the analyzer, and the executor one selection at a time.     *)
(***************************************************************************)

syncInIdle == <<parser, errs, repo>>

\* Candidates of shapes that the default filters do not make but the filters
\* of a custom FuncDef (Options.RuleDefs) can: an ignore selection that names
\* children, children out of order, a named property and a value mapping of
\* one file, and a file of a directory that no candidate selects.
CustomInCandidates ==
    {InAction(GlobalDepth, <<>>, <<InSelection(FileModel, TRUE, <<1, 0>>, <<>>, NoValues, TRUE)>>),
     InAction(ProjectDepth, <<>>, <<InSelection(FileModel, FALSE, <<0>>, <<>>, NoValues, TRUE)>>),
     InAction(GlobalDepth, <<>>, <<InSelection(FileModel, FALSE, <<1, 0>>, <<>>, NoValues, TRUE)>>),
     InAction(GlobalDepth, <<>>, <<InSelection(FileValue, FALSE, <<>>, <<PropQ>>, NoValues, TRUE)>>),
     InAction(GlobalDepth, <<>>,
         <<InSelection(FileValue, FALSE, <<>>, <<>>, [k \in {PropP} |-> 0], FALSE)>>),
     InAction(GlobalDepth, <<NameA>>, <<InSelection(FileModel, FALSE, <<0>>, <<>>, NoValues, TRUE)>>)}

CustomInputs == UNION {[1..n -> CustomInCandidates] : n \in 1..MaxRules}

\* the cache once every file of the place that decodes has been read
FullCache ==
    [path \in {RelName(e) : e \in {x \in PlaceEntries : ~x.Fails}} |->
        IF EntryAt(path).IsDir
        THEN SourceCacheItem(TRUE, ItemSource(<<DirInstance(path)>>, {}, <<>>))
        ELSE SourceCacheItem(FALSE, EntryAt(path).Source)]

\* The sync-in starts with the rule pairs and an empty cache; or, under a
\* custom FuncDef, at the point where the planner has returned candidates.
SyncInInit ==
    /\ \/ /\ rules \in RuleLists
          /\ cache = <<>>
          /\ decodes = [path \in FilePaths |-> 0]
          /\ input = <<>>
          /\ pc = "plan"
       \/ /\ rules = <<>>
          /\ cache = FullCache
          /\ decodes = [path \in FilePaths |-> IF EntryAt(path).IsDir THEN 0 ELSE 1]
          /\ input \in CustomInputs
          /\ pc = "planned"
    /\ actions = input
    /\ datamodel = NewTree
    /\ parser = Idle /\ errs = Idle /\ repo = Idle

\* d.actions, err = syncInReadDir(opt, d.sources, name, []string{}, rules, d.refs)
ReadPlaceDir ==
    /\ pc = "plan"
    /\ \E r \in syncInReadDir(<<>>, rules, [cache |-> cache, decodes |-> decodes]) :
           /\ cache' = r.cache
           /\ decodes' = r.decodes
           /\ input' = r.actions
           /\ actions' = r.actions
           /\ pc' = IF r.err = "nil" THEN "planned" ELSE "error"
    /\ UNCHANGED <<rules, datamodel, syncInIdle>>

InPassConflictingAction ==
    /\ pc = "planned"
    /\ actions' \in InConflictingAction(actions)
    /\ pc' = "inConflictingAction"
    /\ UNCHANGED <<input, rules, cache, decodes, datamodel, syncInIdle>>

InPassMerge1 ==
    /\ pc = "inConflictingAction"
    /\ actions' \in InMergePass1(actions)
    /\ pc' = "inMerge1"
    /\ UNCHANGED <<input, rules, cache, decodes, datamodel, syncInIdle>>

InPassMerge2 ==
    /\ pc = "inMerge1"
    /\ IF InMergePass2Panics(actions)
       THEN pc' = "panic" /\ actions' = actions
       ELSE pc' = "inMerge2" /\ actions' \in InMergePass2(actions)
    /\ UNCHANGED <<input, rules, cache, decodes, datamodel, syncInIdle>>

InPassSort ==
    /\ pc = "inMerge2"
    /\ actions' \in InSortPass(actions)
    /\ pc' = "analyzed"
    /\ UNCHANGED <<input, rules, cache, decodes, datamodel, syncInIdle>>

\* One turn of the inner loop of syncInApplyActions.
ApplyNext ==
    /\ pc = "analyzed"
    /\ datamodel.applied < Len(ApplyOrder(actions))
    /\ LET at == ApplyOrder(actions)[datamodel.applied + 1]
           action == actions[at[1]]
           sel == action.Selection[at[2]]
       IN  IF ApplySelectionPanics(datamodel, cache, action, sel)
           THEN pc' = "panic" /\ datamodel' = datamodel
           ELSE /\ pc' = pc
                /\ datamodel' = [ApplySelection(datamodel, cache, action, sel)
                                     EXCEPT !.applied = @ + 1]
    /\ UNCHANGED <<input, actions, rules, cache, decodes, syncInIdle>>

\* The loops are over: the place is written.
ApplyDone ==
    /\ pc = "analyzed"
    /\ datamodel.applied = Len(ApplyOrder(actions))
    /\ pc' = "applied"
    /\ UNCHANGED <<input, actions, rules, cache, decodes, datamodel, syncInIdle>>

SyncInNext ==
    \/ ReadPlaceDir
    \/ InPassConflictingAction
    \/ InPassMerge1
    \/ InPassMerge2
    \/ InPassSort
    \/ ApplyNext
    \/ ApplyDone

SyncInSpec == SyncInInit /\ [][SyncInNext]_vars

(***************************************************************************)
(* Vocabulary of the sync-in properties                                    *)
(***************************************************************************)

\* syncInAnalyzeActions has returned its list, which is in actions.
InReturned == pc \in {"analyzed", "applied"}

\* the positions <<action, selection>> of a list of actions
InPositions(acts) ==
    UNION {{<<n, m>> : m \in 1..Len(acts[n].Selection)} : n \in 1..Len(acts)}

InSelAt(acts, p) == acts[p[1]].Selection[p[2]]

\* filepath.Join(dir, selection.File) of the selection at a position
InPathAt(acts, p) == JoinPath(<<JoinPath(acts[p[1]].Dir), InSelAt(acts, p).File>>)

Elems(seq) == {seq[k] : k \in 1..Len(seq)}

\* The positions whose selection names child index child of the file at path.
InChildHolders(acts, path, child) ==
    {p \in InPositions(acts) :
        InPathAt(acts, p) = path /\ child \in Elems(InSelAt(acts, p).Children)}

\* The positions whose selection gives property prop to the directory dir, as
\* a named property or as a key of Values.
InPropHolders(acts, dir, prop) ==
    {p \in InPositions(acts) :
        /\ JoinPath(acts[p[1]].Dir) = dir
        /\ prop \in Elems(InSelAt(acts, p).Properties) \cup DOMAIN InSelAt(acts, p).Values}

InChildItemsOf(acts) ==
    UNION {{<<InPathAt(acts, p), c>> : c \in Elems(InSelAt(acts, p).Children)} :
               p \in InPositions(acts)}

InPropItemsOf(acts) ==
    UNION {{<<JoinPath(acts[p[1]].Dir), n>> :
                n \in Elems(InSelAt(acts, p).Properties) \cup DOMAIN InSelAt(acts, p).Values} :
               p \in InPositions(acts)}

\* The selection at p is of an action deeper than that of the one at q, or as
\* deep and later in the list.
InBeats(acts, p, q) ==
    \/ acts[p[1]].Depth > acts[q[1]].Depth
    \/ /\ acts[p[1]].Depth = acts[q[1]].Depth
       /\ p[1] > q[1] \/ (p[1] = q[1] /\ p[2] > q[2])

InWinner(acts, holders) ==
    CHOOSE p \in holders : \A q \in holders \ {p} : InBeats(acts, p, q)

\* The number of times a child index occurs in the selection.
Occurrences(seq, x) == Cardinality({k \in 1..Len(seq) : seq[k] = x})

\* The selection at position r of the returned list is, for the item, the one
\* at position w of the input: same directory, file and ignore flag.
SameSelection(r, w) ==
    /\ actions[r[1]].Dir = input[w[1]].Dir
    /\ InSelAt(actions, r).File = InSelAt(input, w).File
    /\ InSelAt(actions, r).Ignore = InSelAt(input, w).Ignore

(***************************************************************************)
(* C11: in cascade                                                         *)
(***************************************************************************)

\* C11: of the candidate selections that name the same child index of the
\* same file path, and of those that give the same property name to the same
\* directory (as a named property or as a value mapping, from whatever file),
\* exactly one is in the returned list: the one of the deepest action, at
\* equal depth the latest in the input, with the kind and the value index it
\* had.
C11_InCascade ==
    InReturned =>
        /\ \A item \in InChildItemsOf(input) :
               LET w == InWinner(input, InChildHolders(input, item[1], item[2]))
                   kept == InChildHolders(actions, item[1], item[2])
               IN  /\ Cardinality(kept) = 1
                   /\ \A r \in kept :
                          /\ SameSelection(r, w)
                          /\ Occurrences(InSelAt(actions, r).Children, item[2]) = 1
        /\ \A item \in InPropItemsOf(input) :
               LET w == InWinner(input, InPropHolders(input, item[1], item[2]))
                   won == InSelAt(input, w)
                   kept == InPropHolders(actions, item[1], item[2])
               IN  /\ Cardinality(kept) = 1
                   /\ \A r \in kept :
                          LET sel == InSelAt(actions, r)
                          IN  /\ SameSelection(r, w)
                              /\ IF item[2] \in DOMAIN won.Values
                                 THEN /\ item[2] \in DOMAIN sel.Values
                                      /\ sel.Values[item[2]] = won.Values[item[2]]
                                      /\ item[2] \notin Elems(sel.Properties)
                                 ELSE /\ item[2] \notin DOMAIN sel.Values
                                      /\ Occurrences(sel.Properties, item[2]) = 1

\* The list is returned for an input in which property P of the root comes
\* from two files, as a value mapping of the deeper candidate, which is the
\* first, and as a named property of the other.
C11_Witness ==
    /\ InReturned
    /\ \E p, q \in InPropHolders(input, <<>>, PropP) :
           /\ p[1] < q[1]
           /\ input[p[1]].Depth > input[q[1]].Depth
           /\ InSelAt(input, p).File /= InSelAt(input, q).File
           /\ PropP \in DOMAIN InSelAt(input, p).Values
           /\ PropP \in Elems(InSelAt(input, q).Properties)

(***************************************************************************)
(* C12: the in filter Ignore()                                             *)
(***************************************************************************)

\* The positions whose selection is for the file at path.
InPathHolders(acts, path) == {p \in InPositions(acts) : InPathAt(acts, p) = path}

\* The file at path is ignored by the rule that takes precedence for it: of
\* the candidates that the rules emitted for it, the deepest, at equal depth
\* the latest, is an ignore selection.
IgnoredByPrecedence(path) ==
    /\ InPathHolders(input, path) /= {}
    /\ InSelAt(input, InWinner(input, InPathHolders(input, path))).Ignore

\* The objects that the cache holds for the file at path.
SourceChildren(path) ==
    IF path \in DOMAIN cache THEN Elems(cache[path].Source.Children) ELSE {}

\* C12: when the rule that takes precedence for a file has the filter
\* Ignore(), the returned list has no selection for that file that is not an
\* ignore selection, and the executor gives none of its objects a parent and
\* sets no property to a value of it.
C12_AsClaimed ==
    \A path \in FilePaths :
        InReturned /\ IgnoredByPrecedence(path)
        => /\ \A p \in InPathHolders(actions, path) : InSelAt(actions, p).Ignore
           /\ \A o \in SourceChildren(path) : datamodel.parent[o] = NilInstance
           /\ \A o \in Instances : \A k \in DOMAIN datamodel.properties[o] :
                  datamodel.properties[o][k].Source /= path

(***************************************************************************)
(* C13: canonical form of the in plan                                      *)
(***************************************************************************)

StrLessEq(x, y) == x = y \/ StrLess(x, y)

\* C13: the returned list has its actions in strictly ascending order of
\* joined directory path (so one action per directory); the selections of an
\* action are in strictly ascending order of file, the non-ignore selection
\* of a file before its ignore selection (so one selection per file and
\* ignore flag); the children and the properties of a selection ascend.
C13_CanonicalInPlan ==
    InReturned =>
        /\ \A i, j \in 1..Len(actions) :
               i < j => StrLess(JoinPath(actions[i].Dir), JoinPath(actions[j].Dir))
        /\ \A n \in 1..Len(actions) :
               LET sels == actions[n].Selection
               IN  /\ \A i, j \in 1..Len(sels) :
                          i < j => \/ StrLess(sels[i].File, sels[j].File)
                                   \/ /\ sels[i].File = sels[j].File
                                      /\ ~sels[i].Ignore /\ sels[j].Ignore
                   /\ \A m \in 1..Len(sels) :
                          /\ \A i, j \in 1..Len(sels[m].Children) :
                                 i < j => sels[m].Children[i] <= sels[m].Children[j]
                          /\ \A i, j \in 1..Len(sels[m].Properties) :
                                 i < j => StrLessEq(sels[m].Properties[i], sels[m].Properties[j])

\* A list of two actions is returned in which an action has the non-ignore
\* and the ignore selection of one file.
C13_Witness ==
    /\ InReturned
    /\ Len(actions) >= 2
    /\ \E n \in 1..Len(actions) :
           \E i, j \in 1..Len(actions[n].Selection) :
               LET sels == actions[n].Selection
               IN  sels[i].File = sels[j].File /\ ~sels[i].Ignore /\ sels[j].Ignore

(***************************************************************************)
(* C14: at most one decode per file path                                   *)
(***************************************************************************)

\* C14: in the sync-in of a place directory, Decode is called at most once
\* for every file path, however many rules select the file and whether the
\* call failed or not.
C14_AtMostOneDecode == \A path \in FilePaths : decodes[path] <= 1

\* The planner has returned candidates of two rules for one file, which was
\* decoded once.
C14_Witness ==
    /\ pc = "planned" /\ rules /= <<>>
    /\ \E p, q \in InPositions(input) :
           /\ p[1] < q[1]
           /\ InPathAt(input, p) = InPathAt(input, q)
           /\ decodes[InPathAt(input, p)] = 1

(***************************************************************************)
(* C15: single re-parenting                                                *)
(***************************************************************************)

\* The objects that have o among their children.
ParentsOf(o) == {q \in Instances : o \in Elems(datamodel.children[q])}

\* C15: in the returned list every (file path, child index) is in at most one
\* selection, once; the executor calls SetParent at most once on every
\* object, and at every point no object is among the children of two objects
\* or twice among those of one.
C15_SingleReparenting ==
    /\ InReturned =>
           \A item \in InChildItemsOf(actions) :
               /\ Cardinality(InChildHolders(actions, item[1], item[2])) = 1
               /\ \A p \in InChildHolders(actions, item[1], item[2]) :
                      Occurrences(InSelAt(actions, p).Children, item[2]) = 1
    /\ \A o \in Instances :
           /\ datamodel.moves[o] <= 1
           /\ Cardinality(ParentsOf(o)) <= 1
           /\ \A q \in Instances : Occurrences(datamodel.children[q], o) <= 1
           /\ \A q \in ParentsOf(o) : datamodel.parent[o] = q

\* The executor is done; it has put the object of the directory and an object
\* of a file under the DataModel and an object of a file under the object of
\* the directory.
C15_Witness ==
    /\ pc = "applied"
    /\ Len(datamodel.children[DataModel]) >= 2
    /\ datamodel.children[DirInstance(NameA)] /= <<>>

(***************************************************************************)
(* C16: property-name round trip                                           *)
(***************************************************************************)

\* in File(*.txt) : PropertyName()
PropertyNameRule == InRule(GlobalDepth, FilePattern(Star \o Dot \o Txt), Filter("PropertyName"))

\* C16: the file that the out filter PropertyName(txt) writes for property P
\* of the object of the place's root is read back by the in rule
\* File(*.txt) : PropertyName() as property P: the returned list maps the
\* file's value 0 to P, and when the executor is done the DataModel has the
\* file's value as its property P and as no other property.
C16_AsClaimed ==
    (rules /= <<>> /\ \A r \in 1..Len(rules) : rules[r] = PropertyNameRule)
    => /\ InReturned =>
              \A p \in InPathHolders(actions, OutPropertyNameFile(PropP, Txt)) :
                  DOMAIN InSelAt(actions, p).Values = {PropP}
       /\ pc = "applied" =>
              LET set == datamodel.properties[DataModel]
                  value == Value(OutPropertyNameFile(PropP, Txt), <<>>, 0)
              IN  /\ PropP \in DOMAIN set /\ set[PropP] = value
                  /\ \A k \in DOMAIN set : set[k] = value => k = PropP

(***************************************************************************)
(* C17: rule errors and sibling rules                                      *)
(***************************************************************************)

\* The results of rule r alone on the root of the place that are no error.
SucceedsAtRoot(r) ==
    {res \in CallIn(rules[r], <<>>, [cache |-> cache, decodes |-> decodes]) : res.err = "nil"}

\* C17: when the planner has met a rule that returned an error in the place
\* directory, the candidates it returns still hold, for every rule that
\* succeeds on the root of the place, a candidate of that rule's depth for
\* every file the rule selects there.
C17_AsClaimed ==
    pc = "error" =>
        \A r \in 1..Len(rules) : \A res \in SucceedsAtRoot(r) : \A k \in 1..Len(res.is) :
            \E n \in 1..Len(input) :
                /\ input[n].Depth = rules[r].Depth
                /\ input[n].Dir = <<>>
                /\ input[n].Selection[1].File = res.is[k].File
                /\ input[n].Selection[1].Ignore = res.is[k].Ignore

(***************************************************************************)
(* Rule files: the argument parsers (argtypes.go), the rule parser and     *)
(* getStdRules (part_002 1913-2152).  A rule file is a sequence of lines,  *)
(* a line a sequence of ASCII bytes.  An out-of-range index, a slice past  *)
(* the end and a failed type assertion are faults: the call does not       *)
(* return, which the results carry in their field panic.  A function is    *)
(* written as a chain of definitions, one per stretch of its body, each    *)
(* handing the values computed so far to the next.                         *)
(***************************************************************************)
Comma == <<44>>
ArgOpen == <<40>>
ArgClose == <<41>>
RuleSep == <<58>>
Comment == <<35>>
AtSign == <<64>>

\* unicode.IsSpace on ASCII: tab, line feed, vertical tab, form feed,
\* carriage return, space
IsSpace(r) == r \in {9, 10, 11, 12, 13, 32}

\* indexFunc(s, unicode.IsSpace, truth): the offset of the first byte whose
\* IsSpace is truth, len(s) when there is none
indexFunc(s, truth) ==
    LET hits == {k \in 1..Len(s) : IsSpace(s[k]) = truth}
    IN  IF hits = {} THEN Len(s)
        ELSE (CHOOSE k \in hits : \A h \in hits : k <= h) - 1

\* strings.TrimLeftFunc(s, unicode.IsSpace)
TrimLeftSpace(s) == From(s, indexFunc(s, FALSE))

\* strings.TrimSpace
TrimSpace(s) ==
    LET keep == {k \in 1..Len(s) : ~IsSpace(s[k])}
    IN  IF keep = {} THEN <<>>
        ELSE SubSeq(s, CHOOSE k \in keep : \A h \in keep : k <= h,
                       CHOOSE k \in keep : \A h \in keep : h <= k)

\* The values of the Arg interface, each with its dynamic type.
NilArg == [Nil |-> TRUE]
ArgString(v) == [String |-> v]
ArgName(any, literal) == [Any |-> any, Literal |-> literal]
ArgFileName(v) == [FileName |-> v]

\* What an ArgType returns: (Arg, int, error), or a fault.
ArgResult(arg, n, err) == [arg |-> arg, n |-> n, err |-> err, panic |-> FALSE]
ArgFault == [arg |-> NilArg, n |-> 0, err |-> "", panic |-> TRUE]

\* The loop of ArgTypeString from offset n on, v the runes gathered so far.
\* After a backslash the case falls through to the default with r still the
\* backslash: n has passed two bytes and v has gained the backslash.
RECURSIVE ArgStringLoop(_, _, _)
ArgStringLoop(s, n, v) ==
    IF n >= Len(s) THEN [v |-> v, n |-> n, err |-> ""]
    ELSE IF s[n + 1] = Backslash[1]
    THEN IF n + 1 >= Len(s)
         THEN [v |-> v, n |-> n + 1, err |-> "reached end-of-line while parsing escape"]
         ELSE ArgStringLoop(s, n + 2, Append(v, s[n + 1]))
    ELSE IF s[n + 1] \in {Comma[1], ArgClose[1]}
    THEN [v |-> v, n |-> n, err |-> ""]
    ELSE ArgStringLoop(s, n + 1, Append(v, s[n + 1]))

\* the returns of ArgTypeString, loop what its loop ended with
ArgStringReturn(loop) ==
    IF loop.err /= "" THEN ArgResult(NilArg, loop.n, loop.err)
    ELSE ArgResult(ArgString(TrimSpace(loop.v)), loop.n, "")

ArgTypeString(s) == ArgStringReturn(ArgStringLoop(s, 0, <<>>))

\* The end of ArgTypeName: v.(ArgString) is asserted on the nil that
\* ArgTypeString returns with an error.
ArgNameLiteral(n, str) ==
    IF str.err /= "" THEN ArgFault
    ELSE ArgResult(ArgName(FALSE, str.arg.String), n + str.n, "")

\* ArgTypeName after "n = indexFunc(...); s = s[n:]", nn the offset of the
\* first byte after s[0] that is no space.  s[1+nn] is read without a check
\* of the length.
ArgNameAt(n, s, nn) ==
    IF Len(s) = 0 THEN ArgResult(ArgName(FALSE, <<>>), n, "")
    ELSE IF s[1] = Star[1] /\ 1 + nn >= Len(s) THEN ArgFault
    ELSE IF s[1] = Star[1] /\ s[1 + nn + 1] \in {Comma[1], ArgClose[1]}
    THEN ArgResult(ArgName(TRUE, <<>>), n + 1 + nn, "")
    ELSE ArgNameLiteral(n, ArgTypeString(s))

ArgTypeName(s) ==
    ArgNameAt(indexFunc(s, FALSE), TrimLeftSpace(s), indexFunc(From(TrimLeftSpace(s), 1), FALSE))

\* the end of ArgTypeClass, name what ArgTypeName returned
ArgClassNamed(noSub, n, name) ==
    IF name.panic THEN ArgFault
    ELSE ArgResult(ArgClass(name.arg.Any, name.arg.Literal, noSub), n + name.n, name.err)

\* ArgTypeClass after "n = indexFunc(...); s = s[n:]".  After "@" the text
\* is cut by "n++; s = s[n:]", n counting the leading white space as well.
ArgClassAt(n, s) ==
    IF Len(s) = 0 THEN ArgResult(ArgClass(FALSE, <<>>, FALSE), n, "")
    ELSE IF s[1] /= AtSign[1] THEN ArgClassNamed(FALSE, n, ArgTypeName(s))
    ELSE IF n + 1 > Len(s) THEN ArgFault
    ELSE ArgClassNamed(TRUE, n + 1, ArgTypeName(From(s, n + 1)))

ArgTypeClass(s) == ArgClassAt(indexFunc(s, FALSE), TrimLeftSpace(s))

\* the end of ArgTypeFileName: str.(ArgString) is asserted on the nil of an
\* error
ArgFileNameOf(str) ==
    IF str.err /= "" THEN ArgFault
    ELSE ArgResult(ArgFileName(str.arg.String), str.n, "")

ArgTypeFileName(s) == ArgFileNameOf(ArgTypeString(s))

ArgType(type, s) ==
    CASE type = "String" -> ArgTypeString(s)
      [] type = "Name" -> ArgTypeName(s)
      [] type = "Class" -> ArgTypeClass(s)
      [] type = "FileName" -> ArgTypeFileName(s)

\* The functions of DefaultRuleDefs with the types of their arguments
\* (part_002 1486-1826): the name as it is written in a rule file, and the
\* name as the model writes it.
FuncDef(text, name, args) == [Text |-> text, Name |-> name, Args |-> args]

OutPatternDefs ==
    {FuncDef(<<67, 104, 105, 108, 100>>, "Child", <<"Class">>),
     FuncDef(<<80, 114, 111, 112, 101, 114, 116, 121>>, "Property", <<"Class", "Name", "Name">>)}
OutFilterDefs ==
    {FuncDef(<<70, 105, 108, 101>>, "File", <<"String">>),
     FuncDef(<<68, 105, 114, 101, 99, 116, 111, 114, 121>>, "Directory", <<>>),
     FuncDef(<<80, 114, 111, 112, 101, 114, 116, 121, 78, 97, 109, 101>>, "PropertyName", <<"String">>),
     FuncDef(<<73, 103, 110, 111, 114, 101>>, "Ignore", <<>>)}
InPatternDefs ==
    {FuncDef(<<70, 105, 108, 101>>, "File", <<"FileName">>),
     FuncDef(<<68, 105, 114, 101, 99, 116, 111, 114, 121>>, "Directory", <<"Class", "FileName">>)}
InFilterDefs ==
    {FuncDef(<<67, 104, 105, 108, 100, 114, 101, 110>>, "Children", <<>>),
     FuncDef(<<80, 114, 111, 112, 101, 114, 116, 105, 101, 115>>, "Properties", <<>>),
     FuncDef(<<80, 114, 111, 112, 101, 114, 116, 121>>, "Property", <<"String">>),
     FuncDef(<<80, 114, 111, 112, 101, 114, 116, 121, 78, 97, 109, 101>>, "PropertyName", <<>>),
     FuncDef(<<73, 103, 110, 111, 114, 101>>, "Ignore", <<>>)}

\* ruleParser.ident: the letters before the first byte that is no letter;
\* empty when every byte is a letter.
ident(s) ==
    LET stops == {k \in 1..Len(s) : ~((97 <= s[k] /\ s[k] <= 122) \/ (65 <= s[k] /\ s[k] <= 90))}
    IN  IF stops = {} THEN <<>>
        ELSE SubSeq(s, 1, (CHOOSE k \in stops : \A h \in stops : k <= h) - 1)

FuncResult(left, rf, err, panic) == [left |-> left, rf |-> rf, err |-> err, panic |-> panic]
FuncError(err) == FuncResult(<<>>, ruleFunc("", <<>>), err, FALSE)
FuncFault == FuncResult(<<>>, ruleFunc("", <<>>), "", TRUE)

\* The loop of readFunc over the argument types, from the i-th (counted from
\* 0) on; readArg is the round of the loop after "arg, n, err := argt(rule)".
RECURSIVE readArgs(_, _, _, _)
RECURSIVE readArg(_, _, _, _, _)
readArgs(rule, argts, i, args) ==
    IF i >= Len(argts) THEN FuncResult(rule, ruleFunc("", args), "", FALSE)
    ELSE readArg(rule, argts, i, args, ArgType(argts[i + 1], rule))

readArg(rule, argts, i, args, res) ==
    IF res.panic THEN FuncFault
    ELSE IF res.err /= "" THEN FuncError("error parsing argument")
    ELSE IF res.n > Len(rule) THEN FuncFault
    ELSE IF i >= Len(argts) - 1
    THEN readArgs(From(rule, res.n), argts, i + 1, Append(args, res.arg))
    ELSE IF HasPrefix(From(rule, res.n), ArgClose) THEN FuncError("expected more arguments")
    ELSE IF ~HasPrefix(From(rule, res.n), Comma) THEN FuncError("bad syntax: expected ,")
    ELSE readArgs(From(rule, res.n + 1), argts, i + 1, Append(args, res.arg))

\* the end of readFunc, loop what the loop over the arguments ended with
readFuncClose(name, loop) ==
    IF loop.panic \/ loop.err /= "" THEN loop
    ELSE IF ~HasPrefix(loop.left, ArgClose) THEN FuncError("bad syntax: expected )")
    ELSE FuncResult(From(loop.left, 1), ruleFunc(name, loop.rf.Args), "", FALSE)

\* readFunc after "rf.Name = d.ident(rule)", found the definitions of that
\* name
readFuncNamed(rule, name, found) ==
    IF Len(name) = 0 THEN FuncError("empty function name")
    ELSE IF found = {} THEN FuncError("unknown function")
    ELSE IF ~HasPrefix(From(rule, Len(name)), ArgOpen) THEN FuncError("bad syntax: expected (")
    ELSE readFuncClose((CHOOSE def \in found : TRUE).Name,
                       readArgs(From(rule, Len(name) + 1), (CHOOSE def \in found : TRUE).Args, 0, <<>>))

readFunc(rule, defs) ==
    readFuncNamed(rule, ident(rule), {def \in defs : def.Text = ident(rule)})

\* What the reading of one line does to the parser: the pairs it appends to
\* d.funcs, the error it leaves in d.err ("" for none), or a fault.
LineResult(funcs, err, panic) == [funcs |-> funcs, err |-> err, panic |-> panic]

\* The end of readRule, filter what readFunc returned for the filter.  The
\* pair is appended before the rest of the line is looked at.
readRuleFilter(depth, syncType, pattern, filter) ==
    IF filter.panic THEN LineResult(<<>>, "", TRUE)
    ELSE IF filter.err /= "" THEN LineResult(<<>>, filter.err, FALSE)
    ELSE IF Len(TrimLeftSpace(filter.left)) /= 0
    THEN LineResult(<<rulePair(depth, syncType, pattern.rf, filter.rf)>>,
                    "unexpected characters beyond filter", FALSE)
    ELSE LineResult(<<rulePair(depth, syncType, pattern.rf, filter.rf)>>, "", FALSE)

\* readRule after the pattern, pattern what readFunc returned for it
readRulePattern(depth, syncType, pattern) ==
    IF pattern.panic THEN LineResult(<<>>, "", TRUE)
    ELSE IF pattern.err /= "" THEN LineResult(<<>>, pattern.err, FALSE)
    ELSE IF ~HasPrefix(TrimLeftSpace(pattern.left), RuleSep)
    THEN LineResult(<<>>, "bad syntax: expected :", FALSE)
    ELSE readRuleFilter(depth, syncType, pattern,
                        readFunc(TrimLeftSpace(From(TrimLeftSpace(pattern.left), 1)),
                                 IF syncType = "out" THEN OutFilterDefs ELSE InFilterDefs))

\* readRule after "typ := d.ident(rule)"
readRuleTyped(rule, depth, typ) ==
    IF typ = <<111, 117, 116>>
    THEN readRulePattern(depth, "out", readFunc(TrimLeftSpace(From(rule, Len(typ))), OutPatternDefs))
    ELSE IF typ = <<105, 110>>
    THEN readRulePattern(depth, "in", readFunc(TrimLeftSpace(From(rule, Len(typ))), InPatternDefs))
    ELSE LineResult(<<>>, "unknown rule type", FALSE)

readRule(rule, depth) == readRuleTyped(rule, depth, ident(rule))

\* readLine after the trimming of the line
readLineTrimmed(line, depth) ==
    IF Len(line) = 0 THEN LineResult(<<>>, "", FALSE)
    ELSE IF HasPrefix(line, Comment) THEN LineResult(<<>>, "", FALSE)
    ELSE readRule(line, depth)

readLine(line, depth) == readLineTrimmed(TrimLeftSpace(line), depth)

(***************************************************************************)
(* getStdRules over the two rule files.  globalRulePath returns "", which  *)
(* os.Open never opens; the project's rule file is there or not, and holds *)
(* up to MaxLines lines.                                                   *)
(***************************************************************************)
MaxLines == 3

\* in File(*):Ignore()
LineIn == <<105, 110, 32, 70, 105, 108, 101, 40, 42, 41, 58, 73, 103, 110, 111, 114, 101, 40, 41>>
\* out Child(*):Ignore()
LineOut == <<111, 117, 116, 32, 67, 104, 105, 108, 100, 40, 42, 41, 58, 73, 103, 110, 111, 114, 101, 40, 41>>
\* # c
LineComment == <<35, 32, 99>>
\* one space
LineBlank == <<32>>
\* bad
LineUnknownType == <<98, 97, 100>>
\* in File(*):Ignore() x
LineTrailing == <<105, 110, 32, 70, 105, 108, 101, 40, 42, 41, 58, 73, 103, 110, 111, 114, 101, 40, 41, 32, 120>>
\* in File(*)
LineNoFilter == <<105, 110, 32, 70, 105, 108, 101, 40, 42, 41>>
\* out Child(*
LineOpenStar == <<111, 117, 116, 32, 67, 104, 105, 108, 100, 40, 42>>
\* out Child( @A):Ignore()
LineSpaceAt == <<111, 117, 116, 32, 67, 104, 105, 108, 100, 40, 32, 64, 65, 41, 58, 73, 103, 110, 111, 114, 101, 40, 41>>

RuleLines ==
    {LineIn, LineOut, LineComment, LineBlank, LineUnknownType, LineTrailing, LineNoFilter,
     LineOpenStar, LineSpaceAt}

\* a rule file: whether os.Open opens it, and its lines
RuleFile(opens, lines) == [Opens |-> opens, Lines |-> lines]
NoRuleFile == RuleFile(FALSE, <<>>)

RuleFiles ==
    {NoRuleFile} \cup {RuleFile(TRUE, lines) : lines \in UNION {[1..n -> RuleLines] : n \in 0..MaxLines}}

\* *ErrParseRule
ErrParseRule(line, err) == [Line |-> line, Err |-> err]

\* *ErrFile of getStdRules; an error of os.Open stands in Errors as the one
\* error of line 0
ErrFile(fileName, errors) == [FileName |-> fileName, Errors |-> errors]

\* the ruleParser of parseRuleFile for the i-th file (counted from 0), and
\* the place of getStdRules in its loop while no file is open
ruleParser(i, line) == [file |-> i, depth |-> i + 1, line |-> line, funcs |-> <<>>, errs |-> <<>>]

\* a scanner that gives up at the first bad line
ScanUntilError(d, lines) == d.line <= Len(lines) /\ d.errs = <<>>

\* "for s.Scan()": there is a line left to read
Scan(d, lines) == d.line <= Len(lines)

\* the body of the loop of parseRules, res what readLine did; a fault leaves
\* the parser where it was
ScanStep(d, res) ==
    IF res.panic THEN d
    ELSE [d EXCEPT !.funcs = d.funcs \o res.funcs,
                   !.errs = IF res.err /= "" THEN Append(d.errs, ErrParseRule(d.line, res.err)) ELSE d.errs,
                   !.line = d.line + 1]

RulePaths == <<"(global rules)", "(project rules)">>

rulesIdle == <<actions, cache, decodes, datamodel, repo>>

RulesInit ==
    /\ \E file \in RuleFiles : input = <<NoRuleFile, file>>
    /\ parser = ruleParser(0, 0)
    /\ rules = <<>>
    /\ errs = <<>>
    /\ pc = "open"
    /\ actions = Idle /\ cache = Idle /\ decodes = Idle /\ datamodel = Idle /\ repo = Idle

\* the step of getStdRules to the file after the i-th, or its return
NextRuleFile(i) ==
    IF i + 1 < Len(input)
    THEN parser' = ruleParser(i + 1, 0) /\ pc' = "open"
    ELSE parser' = parser /\ pc' = "returned"

\* parseRuleFile opens the file: a failure is the file's error in
\* getStdRules, which goes on with the next file
OpenRuleFile ==
    /\ pc = "open"
    /\ IF input[parser.file + 1].Opens
       THEN /\ parser' = ruleParser(parser.file, 1)
            /\ pc' = "scan"
            /\ errs' = errs
       ELSE /\ errs' = Append(errs, ErrFile(RulePaths[parser.file + 1],
                                            <<ErrParseRule(0, "open")>>))
            /\ NextRuleFile(parser.file)
    /\ UNCHANGED <<input, rules, rulesIdle>>

\* one round of the loop of parseRules
ScanLine ==
    /\ pc = "scan"
    /\ Scan(parser, input[parser.file + 1].Lines)
    /\ parser' = ScanStep(parser, readLine(input[parser.file + 1].Lines[parser.line], parser.depth))
    /\ pc' = IF parser' = parser THEN "panic" ELSE pc
    /\ UNCHANGED <<input, rules, errs, rulesIdle>>

\* parseRules returns d.funcs, and d.errs when it is not empty
ParseRulesReturn ==
    /\ pc = "scan"
    /\ ~Scan(parser, input[parser.file + 1].Lines)
    /\ pc' = "parsed"
    /\ UNCHANGED <<input, parser, rules, errs, rulesIdle>>

\* getStdRules takes what parseRuleFile returned: with an error the file's
\* errors and none of its pairs, without one its pairs
TakeRules ==
    /\ pc = "parsed"
    /\ IF parser.errs /= <<>>
       THEN /\ errs' = Append(errs, ErrFile(RulePaths[parser.file + 1], parser.errs))
            /\ rules' = rules
       ELSE /\ errs' = errs
            /\ rules' = rules \o parser.funcs
    /\ NextRuleFile(parser.file)
    /\ UNCHANGED <<input, rulesIdle>>

RulesNext ==
    \/ OpenRuleFile
    \/ ScanLine
    \/ ParseRulesReturn
    \/ TakeRules

RulesSpec == RulesInit /\ [][RulesNext]_vars

(***************************************************************************)
(* The rule files' properties.                                             *)
(***************************************************************************)
\* what the reading of the k-th line of the i-th rule file (both counted
\* from 1) comes to
LineOf(i, k) == readLine(input[i].Lines[k], i)

\* the lines that leave an error, and the rule lines that leave none
BadLines(i) == {k \in 1..Len(input[i].Lines) : LineOf(i, k).err /= ""}
GoodLines(i) ==
    {k \in 1..Len(input[i].Lines) : LineOf(i, k).err = "" /\ LineOf(i, k).funcs /= <<>>}

\* The pairs of the good lines of the i-th file stand in pairs, in the order
\* of their lines.
GoodPairsIn(i, pairs) ==
    \E f \in [GoodLines(i) -> 1..Len(pairs)] :
        /\ \A j \in GoodLines(i), k \in GoodLines(i) : j < k => f[j] < f[k]
        /\ \A k \in GoodLines(i) : pairs[f[k]] = LineOf(i, k).funcs[1]

\* The errors are those of the bad lines of the i-th file, one each, with
\* the number of the line, in the order of the lines.
BadLinesIn(i, errors) ==
    /\ Len(errors) = Cardinality(BadLines(i))
    /\ {errors[j].Line : j \in 1..Len(errors)} = BadLines(i)
    /\ \A j \in 1..Len(errors) : errors[j].Err = LineOf(i, errors[j].Line).err
    /\ \A j \in 1..Len(errors), k \in 1..Len(errors) : j < k => errors[j].Line < errors[k].Line

C20_AsClaimed ==
    pc = "returned" =>
        \A i \in 1..Len(input) :
            (input[i].Opens /\ GoodLines(i) /= {} /\ BadLines(i) /= {}) =>
                /\ GoodPairsIn(i, rules)
                /\ \E j \in 1..Len(errs) :
                       errs[j].FileName = RulePaths[i] /\ BadLinesIn(i, errs[j].Errors)

(***************************************************************************)
(* The top-level calls SyncOutReadRepo (sync-out.go 547-611) and           *)
(* SyncInReadRepo (part_001 383-450) over the places of a repository.      *)
(* What a call sees of a place is whether its planning (syncOutReadPlace,  *)
(* syncInReadDir) and its applying (syncInApplyActions) return an error.   *)
(* syncOutApplyActions and syncInVerifyActions return nil always.  The     *)
(* rules do not matter here: both calls go on whatever the rule files      *)
(* gave.                                                                   *)
(***************************************************************************)
MaxPlaces == 3

\* a place: whether its planning fails, and whether its applying fails
Place(plan, apply) == [PlanFails |-> plan, ApplyFails |-> apply]

OutPlaces == {Place(plan, FALSE) : plan \in BOOLEAN}
InPlaces == {Place(plan, apply) : plan \in BOOLEAN, apply \in BOOLEAN}

\* a call: the function, whether opt.Repo is a repository, and its places
RepoCall(call, isRepo, places) == [Call |-> call, IsRepo |-> isRepo, Places |-> places]

RepoCalls ==
    {RepoCall("SyncOutReadRepo", isRepo, places) :
         isRepo \in BOOLEAN, places \in UNION {[1..n -> OutPlaces] : n \in 0..MaxPlaces}}
    \cup {RepoCall("SyncInReadRepo", isRepo, places) :
         isRepo \in BOOLEAN, places \in UNION {[1..n -> InPlaces] : n \in 0..MaxPlaces}}

\* the locals of a call: the index of its loop, the places that were
\* planned (dirs), and what it returned
RepoLocals(i, dirs, result) == [i |-> i, dirs |-> dirs, result |-> result]

\* &ErrFile{FileName: name, Action: "syncing", Errors: []error{err}}
ErrSyncing(name) == ErrFile(name, <<ErrParseRule(0, "syncing")>>)

\* "if len(errs) > 0 { return errs }; return nil"
ReturnErrs(errors) == IF Len(errors) > 0 THEN "ErrsFile" ELSE "nil"

repoIdle == <<actions, rules, cache, decodes, datamodel, parser>>

RepoInit ==
    /\ input \in RepoCalls
    /\ repo = RepoLocals(1, <<>>, "none")
    /\ errs = <<>>
    /\ pc = "start"
    /\ actions = Idle /\ rules = Idle /\ cache = Idle /\ decodes = Idle
    /\ datamodel = Idle /\ parser = Idle

\* SyncOutReadRepo up to its first loop
OutStart ==
    /\ pc = "start"
    /\ input.Call = "SyncOutReadRepo"
    /\ IF ~input.IsRepo
       THEN pc' = "returned" /\ repo' = [repo EXCEPT !.result = "not a repo"]
       ELSE pc' = "plan" /\ repo' = repo
    /\ UNCHANGED <<input, errs, repoIdle>>

\* one round of the loop over the places that calls syncOutReadPlace: an
\* error is printed and the loop goes on
OutReadPlace ==
    /\ pc = "plan"
    /\ input.Call = "SyncOutReadRepo"
    /\ IF repo.i <= Len(input.Places)
       THEN /\ pc' = pc
            /\ repo' = [repo EXCEPT !.i = repo.i + 1,
                                    !.dirs = IF input.Places[repo.i].PlanFails
                                             THEN repo.dirs ELSE Append(repo.dirs, repo.i)]
       ELSE /\ pc' = "apply"
            /\ repo' = [repo EXCEPT !.i = 1]
    /\ UNCHANGED <<input, errs, repoIdle>>

\* one round of the loop that calls syncOutApplyActions for every place, and
\* after the last the return of nil
OutApplyPlace ==
    /\ pc = "apply"
    /\ input.Call = "SyncOutReadRepo"
    /\ IF repo.i <= Len(input.Places)
       THEN /\ pc' = pc
            /\ repo' = [repo EXCEPT !.i = repo.i + 1]
       ELSE /\ pc' = "returned"
            /\ repo' = [repo EXCEPT !.result = "nil"]
    /\ UNCHANGED <<input, errs, repoIdle>>

\* SyncInReadRepo up to its first loop
InStart ==
    /\ pc = "start"
    /\ input.Call = "SyncInReadRepo"
    /\ IF ~input.IsRepo
       THEN pc' = "returned" /\ repo' = [repo EXCEPT !.result = "ErrNotRepo"]
       ELSE IF Len(input.Places) = 0
       THEN pc' = "returned" /\ repo' = [repo EXCEPT !.result = "ErrNoFiles"]
       ELSE pc' = "plan" /\ repo' = repo
    /\ UNCHANGED <<input, errs, repoIdle>>

\* one round of the loop over the directories that calls syncInReadDir: an
\* error is appended to errs, a planned directory to dirs
InReadDir ==
    /\ pc = "plan"
    /\ input.Call = "SyncInReadRepo"
    /\ IF repo.i <= Len(input.Places)
       THEN /\ pc' = pc
            /\ repo' = [repo EXCEPT !.i = repo.i + 1,
                                    !.dirs = IF input.Places[repo.i].PlanFails
                                             THEN repo.dirs ELSE Append(repo.dirs, repo.i)]
            /\ errs' = IF input.Places[repo.i].PlanFails
                       THEN Append(errs, ErrSyncing(repo.i)) ELSE errs
       ELSE /\ pc' = "apply"
            /\ repo' = [repo EXCEPT !.i = 1]
            /\ errs' = errs
    /\ UNCHANGED <<input, repoIdle>>

\* one round of the loop over dirs that calls syncInApplyActions, and after
\* the last the return
InApplyDir ==
    /\ pc = "apply"
    /\ input.Call = "SyncInReadRepo"
    /\ IF repo.i <= Len(repo.dirs)
       THEN /\ pc' = pc
            /\ repo' = [repo EXCEPT !.i = repo.i + 1]
            /\ errs' = IF input.Places[repo.dirs[repo.i]].ApplyFails
                       THEN Append(errs, ErrSyncing(repo.dirs[repo.i])) ELSE errs
       ELSE /\ pc' = "returned"
            /\ repo' = [repo EXCEPT !.result = ReturnErrs(errs)]
            /\ errs' = errs
    /\ UNCHANGED <<input, repoIdle>>

RepoNext ==
    \/ OutStart
    \/ OutReadPlace
    \/ OutApplyPlace
    \/ InStart
    \/ InReadDir
    \/ InApplyDir

RepoSpec == RepoInit /\ [][RepoNext]_vars

\* The places whose planning failed, or whose applying failed after they
\* were planned.
FailedPlaces ==
    {k \in 1..Len(input.Places) :
         input.Places[k].PlanFails \/ input.Places[k].ApplyFails}

\* C18: a top-level call that went through the places of a repository
\* returns an aggregate error when the planning or the applying of a place
\* failed, and nil when none did.
C18_AsClaimed ==
    (pc = "returned" /\ input.IsRepo /\ input.Places /= <<>>) =>
        repo.result = IF FailedPlaces /= {} THEN "ErrsFile" ELSE "nil"

\* SyncInReadRepo alone returns as C18 says.
InReturnsErrs ==
    (pc = "returned" /\ input.Call = "SyncInReadRepo" /\ input.IsRepo /\ input.Places /= <<>>) =>
        /\ repo.result = IF FailedPlaces /= {} THEN "ErrsFile" ELSE "nil"
        /\ {errs[j].FileName : j \in 1..Len(errs)} = FailedPlaces

(***************************************************************************)
(* The rule parser's lines and arguments.                                  *)
(***************************************************************************)
\* the lines of the i-th rule file with text after the filter's ")"
TrailingLines(i) ==
    {k \in 1..Len(input[i].Lines) : LineOf(i, k).err = "unexpected characters beyond filter"}

\* C21: when parseRules returns, every line with text after its filter has
\* its error, and the pairs returned are those of the good lines alone: no
\* pair stands for a line with such a tail.
C21_AsClaimed ==
    pc = "parsed" =>
        /\ \A k \in TrailingLines(parser.file + 1) :
               \E j \in 1..Len(parser.errs) : parser.errs[j].Line = k
        /\ Len(parser.funcs) = Cardinality(GoodLines(parser.file + 1))

(***************************************************************************)
(* The argument parsers on their own: an argument text of up to MaxText    *)
(* bytes is given to one of the four ArgTypes.  The result is held in      *)
(* parser, the name of the ArgType in pc.                                  *)
(***************************************************************************)
MaxText == 4

\* a * \ , ) space @
TextBytes == {97, Star[1], Backslash[1], Comma[1], ArgClose[1], 32, AtSign[1]}

ArgTexts == UNION {[1..n -> TextBytes] : n \in 0..MaxText}

argIdle == <<actions, rules, cache, decodes, datamodel, errs, repo>>

ArgInit ==
    /\ input \in ArgTexts
    /\ parser = ArgResult(NilArg, 0, "")
    /\ pc = "start"
    /\ actions = Idle /\ rules = Idle /\ cache = Idle /\ decodes = Idle
    /\ datamodel = Idle /\ errs = Idle /\ repo = Idle

CallArgTypeString ==
    /\ pc = "start"
    /\ parser' = ArgTypeString(input)
    /\ pc' = "ArgTypeString"
    /\ UNCHANGED <<input, argIdle>>

CallArgTypeName ==
    /\ pc = "start"
    /\ parser' = ArgTypeName(input)
    /\ pc' = "ArgTypeName"
    /\ UNCHANGED <<input, argIdle>>

CallArgTypeClass ==
    /\ pc = "start"
    /\ parser' = ArgTypeClass(input)
    /\ pc' = "ArgTypeClass"
    /\ UNCHANGED <<input, argIdle>>

CallArgTypeFileName ==
    /\ pc = "start"
    /\ parser' = ArgTypeFileName(input)
    /\ pc' = "ArgTypeFileName"
    /\ UNCHANGED <<input, argIdle>>

ArgNext ==
    \/ CallArgTypeString
    \/ CallArgTypeName
    \/ CallArgTypeClass
    \/ CallArgTypeFileName

ArgSpec == ArgInit /\ [][ArgNext]_vars

\* What an argument text stands for when "\x" stands for x: the bytes up to
\* the first "," or ")" that no backslash precedes, each escaped byte in the
\* place of its escape, and the offset where the text stops.
RECURSIVE Unescaped(_, _, _)
Unescaped(s, n, v) ==
    IF n >= Len(s) THEN [v |-> v, n |-> n]
    ELSE IF s[n + 1] = Backslash[1] /\ n + 1 < Len(s)
    THEN Unescaped(s, n + 2, Append(v, s[n + 2]))
    ELSE IF s[n + 1] \in {Comma[1], ArgClose[1]} THEN [v |-> v, n |-> n]
    ELSE Unescaped(s, n + 1, Append(v, s[n + 1]))

\* C22: an ArgString or ArgFileName parsed without an error is the text up
\* to the first unescaped "," or ")" with every "\x" replaced by x (and the
\* white space around it trimmed), and the bytes consumed are the offset of
\* that terminator.
C22_AsClaimed ==
    (pc \in {"ArgTypeString", "ArgTypeFileName"} /\ ~parser.panic /\ parser.err = "") =>
        /\ parser.n = Unescaped(input, 0, <<>>).n
        /\ pc = "ArgTypeString" => parser.arg.String = TrimSpace(Unescaped(input, 0, <<>>).v)
        /\ pc = "ArgTypeFileName" => parser.arg.FileName = TrimSpace(Unescaped(input, 0, <<>>).v)

\* The bytes consumed by ArgTypeString are as C22 says: the offset of the
\* first unescaped terminator.
StringConsumed ==
    (pc = "ArgTypeString" /\ parser.err = "") => parser.n = Unescaped(input, 0, <<>>).n

\* C23: ArgTypeClass returns for a text with leading white space what it
\* returns for the text without it, the bytes consumed counted in the text
\* as given, and stops at a "," or ")" or at the end of the text.
C23_AsClaimed ==
    (pc = "ArgTypeClass" /\ ~ArgTypeClass(TrimLeftSpace(input)).panic) =>
        /\ ~parser.panic
        /\ parser.arg = ArgTypeClass(TrimLeftSpace(input)).arg
        /\ parser.n = indexFunc(input, FALSE) + ArgTypeClass(TrimLeftSpace(input)).n
        /\ parser.n <= Len(input)
        /\ parser.n < Len(input) => input[parser.n + 1] \in {Comma[1], ArgClose[1]}

\* ArgTypeClass is as C23 says on a text that has no white space before "@".
ClassWithoutLeadingSpace ==
    (pc = "ArgTypeClass" /\ ~parser.panic /\ TrimLeftSpace(input) = input) =>
        /\ parser.n <= Len(input)
        /\ parser.n < Len(input) => input[parser.n + 1] \in {Comma[1], ArgClose[1]}
        /\ parser.arg.NoSub = (input /= <<>> /\ input[1] = AtSign[1])

\* C30: ArgTypeName returns for every text, without a fault and with no more
\* bytes consumed than the text has; a "*" followed by white space and a
\* terminator is Any, every other text the literal of ArgTypeString.
C30_AsClaimed ==
    pc = "ArgTypeName" =>
        /\ ~parser.panic
        /\ parser.n <= Len(input)
        /\ parser.arg.Any =>
               /\ TrimLeftSpace(input) /= <<>>
               /\ TrimLeftSpace(input)[1] = Star[1]
               /\ input[parser.n + 1] \in {Comma[1], ArgClose[1]}
        /\ (~parser.arg.Any /\ parser.err = "" /\ TrimLeftSpace(input) /= <<>>) =>
               parser.arg.Literal = ArgTypeString(TrimLeftSpace(input)).arg.String

(***************************************************************************)
(* ArgFileName.Match on its own: a pattern of up to MaxPattern bytes is    *)
(* matched against a name of up to MaxName bytes.  The result is held in   *)
(* parser.                                                                 *)
(***************************************************************************)
MaxPattern == 4
MaxName == 3

\* a b * \ in patterns and in names
PatternBytes == {97, 98, Star[1], Backslash[1]}
NameBytes == PatternBytes

MatchCall(pattern, name) == [Pattern |-> pattern, Name |-> name]

MatchCalls ==
    {MatchCall(pattern, name) :
         pattern \in UNION {[1..n -> PatternBytes] : n \in 0..MaxPattern},
         name \in UNION {[1..n -> NameBytes] : n \in 0..MaxName}}

MatchInit ==
    /\ input \in MatchCalls
    /\ parser = [Match |-> FALSE]
    /\ pc = "start"
    /\ actions = Idle /\ rules = Idle /\ cache = Idle /\ decodes = Idle
    /\ datamodel = Idle /\ errs = Idle /\ repo = Idle

CallMatch ==
    /\ pc = "start"
    /\ parser' = [Match |-> Match(input.Pattern, input.Name)]
    /\ pc' = "Match"
    /\ UNCHANGED <<input, argIdle>>

MatchSpec == MatchInit /\ [][CallMatch]_vars

\* The glob semantics: "*" stands for any run of bytes, the empty one too,
\* "\c" for the byte c, every other byte for itself; a pattern that ends in
\* a lone backslash matches nothing.
RECURSIVE Glob(_, _)
Glob(pattern, name) ==
    IF pattern = <<>> THEN name = <<>>
    ELSE IF pattern[1] = Star[1]
    THEN Glob(Tail(pattern), name) \/ (name /= <<>> /\ Glob(pattern, Tail(name)))
    ELSE IF pattern[1] = Backslash[1]
    THEN /\ Len(pattern) >= 2
         /\ name /= <<>>
         /\ name[1] = pattern[2]
         /\ Glob(From(pattern, 2), Tail(name))
    ELSE name /= <<>> /\ name[1] = pattern[1] /\ Glob(Tail(pattern), Tail(name))

\* C24: Match returns true exactly when the whole name matches the pattern
\* under the glob semantics.
C24_MatchIsGlob ==
    pc = "Match" => (parser.Match <=> Glob(input.Pattern, input.Name))

\* Match has returned true for a pattern with a leading star, a trailing
\* star and two stars in a row, on a name of two bytes or more.
C24_Witness ==
    /\ pc = "Match"
    /\ parser.Match
    /\ Len(input.Pattern) = 4
    /\ input.Pattern[1] = Star[1]
    /\ input.Pattern[2] \in {97, 98}
    /\ input.Pattern[3] = Star[1]
    /\ input.Pattern[4] = Star[1]
    /\ Len(input.Name) >= 2

(***************************************************************************)
(* C25: the Valid Directory pass of syncOutAnalyzeActions                  *)
(***************************************************************************)
\* a directory candidate that describes one child object: one selection of
\* one child index, within the children of the source object
DescribesOneChild(action) ==
    /\ Len(action.Map.Selection) = 1
    /\ Len(action.Map.Selection[1].Children) = 1
    /\ action.Map.Selection[1].Children[1] >= 0
    /\ action.Map.Selection[1].Children[1] < Len(ObjChildren[action.Map.Selection[1].Object])

KeptAsValid(action) == ~action.Map.File.IsDir \/ DescribesOneChild(action)

\* C25: the Valid Directory pass ends without a fault for every list of
\* candidates, and leaves, in their order, the candidates that are no
\* directory or describe exactly one child object.
C25_AsClaimed ==
    /\ pc /= "panic"
    /\ pc = "validDirectory" => actions = SelectSeq(input, KeptAsValid)

\* Where the pass ends, it has dropped and kept as C25 says.
ValidDirectoryDrops ==
    pc = "validDirectory" => actions = SelectSeq(input, KeptAsValid)

(***************************************************************************)
(* The out planner: syncOutReadPlace and syncOutReadObject (sync-out.go    *)
(* 81-199) over the default rule functions (rules.go 110-449).  An object  *)
(* of the place is the list of child indices that leads to it from the     *)
(* DataModel.  The DataModel has a child of class X named "a" and a child  *)
(* of class Y named "b"; the first has one child, the second has two       *)
(* children of one name.  No object has properties, and Options.API is nil.*)
(***************************************************************************)

MaxOutRules == 3

ClassX == <<88>>
ClassY == <<89>>

PlanRoot == <<>>

\* len(obj.Children)
NumChildren(obj) ==
    CASE obj = PlanRoot -> 2
      [] obj = <<0>> -> 1
      [] obj = <<1>> -> 2
      [] OTHER -> 0

\* obj.Children[index]
PlanChild(obj, index) == Append(obj, index)

\* obj.ClassName
ClassName(obj) ==
    CASE obj = PlanRoot -> <<68>>
      [] obj = <<1>> -> ClassY
      [] OTHER -> ClassX

\* obj.Name()
PlanName(obj) ==
    CASE obj = PlanRoot -> <<68>>
      [] obj = <<1>> -> NameB
      [] OTHER -> NameA

\* inherits with a nil API: the class names are equal.
inherits(obj, className) == ClassName(obj) = className

\* isValidFileName: 1 to 255 bytes, not "." and not "..", made of letters,
\* digits, ".", "_" and "-".
isValidFileName(name) ==
    /\ Len(name) > 0 /\ Len(name) <= 255
    /\ name /= <<46>> /\ name /= <<46, 46>>
    /\ \A i \in 1..Len(name) :
           \/ name[i] \in 65..90
           \/ name[i] \in 97..122
           \/ name[i] \in 48..57
           \/ name[i] \in {46, 95, 45}

\* Out-pattern Child: every child index, or the indices of the children of
\* the class, in ascending order.
OutPatternChild(args, obj) ==
    SelectSeq([k \in 1..NumChildren(obj) |-> k - 1],
              LAMBDA i : args[1].Any \/ inherits(PlanChild(obj, i), args[1].Literal))

\* Out-pattern Property: the names of the properties of the object that
\* match; the objects of the place have none.
OutPatternProperty(args, obj) == <<>>

\* Out-filter Directory: one directory OutMap per selected child whose name
\* is a valid file name.
OutFilterDirectory(obj, sobj) ==
    LET kept == SelectSeq(sobj, LAMBDA n : isValidFileName(PlanName(PlanChild(obj, n))))
    IN  [k \in 1..Len(kept) |->
            OutMap(FileDef(PlanName(PlanChild(obj, kept[k])), TRUE),
                   <<OutSelection(obj, <<kept[k]>>, <<>>)>>)]

\* Out-filter Ignore: one OutMap of the empty file name with all that the
\* pattern selected.
OutFilterIgnore(obj, sobj, sprop) ==
    <<OutMap(FileDef(EmptyName, FALSE), <<OutSelection(obj, sobj, sprop)>>)>>

OutResult(om, err) == [om |-> om, err |-> err]

NoError == "nil"

\* The call of the filter function on what the pattern selected.
CallOutFilter(pair, obj, sobj, sprop) ==
    IF pair.Filter.Name \notin {"Directory", "Ignore"}
    THEN OutResult(<<>>, "unknown filter function")
    ELSE IF Len(sobj) = 0 /\ Len(sprop) = 0
    THEN OutResult(<<>>, NoError)
    ELSE IF pair.Filter.Name = "Ignore"
    THEN OutResult(OutFilterIgnore(obj, sobj, sprop), NoError)
    ELSE IF Len(sprop) > 0
    THEN OutResult(<<>>, "filter error: properties not supported")
    ELSE OutResult(OutFilterDirectory(obj, sobj), NoError)

\* FuncDef.CallOut with the default definitions (the filters File and
\* PropertyName are in no rule of the lists below).
CallOut(pair, obj) ==
    IF pair.SyncType /= "out"
    THEN OutResult(<<>>, "expected sync-out function pair")
    ELSE IF pair.Pattern.Name \notin {"Child", "Property"}
    THEN OutResult(<<>>, "unknown pattern function")
    ELSE IF pair.Pattern.Name = "Child"
    THEN CallOutFilter(pair, obj, OutPatternChild(pair.Pattern.Args, obj), <<>>)
    ELSE CallOutFilter(pair, obj, <<>>, OutPatternProperty(pair.Pattern.Args, obj))

\* The locals of syncOutReadObject.
OutLocals(acts, children, names, err) ==
    [actions |-> acts, children |-> children, names |-> names, err |-> err]

\* The maps of one rule: each becomes an action, and each directory
\* selection of one child of obj is remembered with the name of its file.
OutRuleMaps(l, depth, obj, dir, om) ==
    LET isDirSel(m, s) == /\ m.File.IsDir
                          /\ s.Object = obj
                          /\ Len(s.Children) = 1
                          /\ s.Children[1] < NumChildren(obj)
        picked == [k \in 1..Len(om) |->
                      SelectSeq(om[k].Selection, LAMBDA s : isDirSel(om[k], s))]
        flat[k \in 0..Len(om)] ==
            IF k = 0 THEN [children |-> <<>>, names |-> <<>>]
            ELSE [children |-> flat[k - 1].children \o
                               [j \in 1..Len(picked[k]) |-> picked[k][j].Children[1]],
                  names |-> flat[k - 1].names \o
                            [j \in 1..Len(picked[k]) |-> om[k].File.Name]]
    IN  OutLocals(l.actions \o [k \in 1..Len(om) |-> OutAction(depth, dir, om[k])],
                  l.children \o flat[Len(om)].children,
                  l.names \o flat[Len(om)].names,
                  NoError)

\* "for _, pair := range rules": the loop ends at the first error of CallOut.
RECURSIVE OutRuleLoop(_, _, _, _, _)
OutRuleStep(l, res, k, obj, dir, rs) ==
    IF res.err /= NoError
    THEN OutLocals(<<>>, <<>>, <<>>, res.err)
    ELSE OutRuleLoop(OutRuleMaps(l, rs[k].Depth, obj, dir, res.om), k + 1, obj, dir, rs)

OutRuleLoop(l, k, obj, dir, rs) ==
    IF k > Len(rs) THEN l
    ELSE OutRuleStep(l, CallOut(rs[k], obj), k, obj, dir, rs)

\* "for i, index := range children": the remembered children in the order
\* in which the rules produced them.
RECURSIVE syncOutReadObject(_, _, _)
RECURSIVE OutChildLoop(_, _, _, _, _, _)
OutChildStep(acts, sub, l, i, obj, dir, rs) ==
    IF sub.err /= NoError
    THEN [actions |-> <<>>, err |-> sub.err]
    ELSE OutChildLoop(acts \o sub.actions, l, i + 1, obj, dir, rs)

OutChildLoop(acts, l, i, obj, dir, rs) ==
    IF i > Len(l.children) THEN [actions |-> acts, err |-> NoError]
    ELSE OutChildStep(acts,
             syncOutReadObject(PlanChild(obj, l.children[i]), Append(dir, l.names[i]), rs),
             l, i, obj, dir, rs)

OutAfterRules(l, obj, dir, rs) ==
    IF l.err /= NoError
    THEN [actions |-> <<>>, err |-> l.err]
    ELSE OutChildLoop(l.actions, l, 1, obj, dir, rs)

syncOutReadObject(obj, dir, rs) ==
    OutAfterRules(OutRuleLoop(OutLocals(<<>>, <<>>, <<>>, NoError), 1, obj, dir, rs),
                  obj, dir, rs)

OutRule(depth, pattern, filter) == rulePair(depth, "out", pattern, filter)

ClassOnly(class) == ArgClass(FALSE, class, TRUE)

AnyName == [Any |-> TRUE, Literal |-> <<>>]

OutRuleCandidates ==
    {OutRule(GlobalDepth, ruleFunc("Child", <<AnyClass>>), ruleFunc("Directory", <<>>)),
     OutRule(ProjectDepth, ruleFunc("Child", <<ClassOnly(ClassX)>>), ruleFunc("Directory", <<>>)),
     OutRule(ProjectDepth, ruleFunc("Child", <<ClassOnly(ClassY)>>), ruleFunc("Directory", <<>>)),
     OutRule(GlobalDepth, ruleFunc("Child", <<AnyClass>>), ruleFunc("Ignore", <<>>)),
     OutRule(GlobalDepth, ruleFunc("Property", <<AnyClass, AnyName, AnyName>>), ruleFunc("Ignore", <<>>)),
     OutRule(GlobalDepth, ruleFunc("Child", <<AnyClass>>), ruleFunc("Children", <<>>)),
     rulePair(GlobalDepth, "in", ruleFunc("File", <<Star>>), ruleFunc("Children", <<>>))}

OutRuleLists == UNION {[1..n -> OutRuleCandidates] : n \in 0..MaxOutRules}

outPlanIdle == <<input, cache, decodes, datamodel, parser, repo>>

OutPlanInit ==
    /\ rules \in OutRuleLists
    /\ actions = <<>>
    /\ errs = NoError
    /\ pc = "start"
    /\ input = Idle /\ cache = Idle /\ decodes = Idle
    /\ datamodel = Idle /\ parser = Idle /\ repo = Idle

\* syncOutReadPlace, after the place file is decoded: the plan of the
\* DataModel for the directory of the place.
OutReadPlaceResult(res) ==
    /\ actions' = res.actions
    /\ errs' = res.err
    /\ pc' = IF res.err = NoError THEN "planned" ELSE "error"

syncOutReadPlace ==
    /\ pc = "start"
    /\ OutReadPlaceResult(syncOutReadObject(PlanRoot, <<PlaceDir>>, rules))
    /\ UNCHANGED <<rules, outPlanIdle>>

OutPlanSpec == OutPlanInit /\ [][syncOutReadPlace]_vars

\* The child of the DataModel whose subtree an action of the plan belongs
\* to, -1 for an action of the DataModel itself.
SubtreeOf(action) ==
    IF action.Map.Selection[1].Object = PlanRoot THEN -1
    ELSE action.Map.Selection[1].Object[1]

\* C26: in the list the out planner returns, all actions of the subtree of
\* child k1 of an object precede all actions of the subtree of child k2
\* whenever k1 < k2 (here for the children of the DataModel).
C26_AsClaimed ==
    pc = "planned" =>
        \A i, j \in 1..Len(actions) :
            (/\ SubtreeOf(actions[i]) >= 0
             /\ SubtreeOf(actions[i]) < SubtreeOf(actions[j])) => i < j

\* The recursion follows the order of production: the subtrees come in the
\* order in which the directory actions of the DataModel come.
OutPlanInProductionOrder ==
    pc = "planned" =>
        LET own == SelectSeq(actions,
                       LAMBDA a : SubtreeOf(a) = -1 /\ a.Map.File.IsDir)
            sub == SelectSeq(actions, LAMBDA a : SubtreeOf(a) >= 0)
        IN  \A i, j \in 1..Len(sub) :
                i < j =>
                    \E p, q \in 1..Len(own) :
                        /\ p <= q
                        /\ own[p].Map.Selection[1].Children[1] = SubtreeOf(sub[i])
                        /\ own[q].Map.Selection[1].Children[1] = SubtreeOf(sub[j])

(***************************************************************************)
(* The in planner's walk of one directory, syncInReadDir (part_001 24-77), *)
(* one step at a time, for every list of selections that the rule          *)
(* functions can emit there (those of a custom FuncDef included) and every *)
(* cache: the scan for directories, the sort of the names found, and the   *)
(* recursive calls.  The call for a subdirectory is the same walk one      *)
(* level down; here it is recorded and returns no action.                  *)
(***************************************************************************)

MaxSelections == 3

NameAB == <<97, 98>>

WalkNames == {NameA, NameB, NameAB}

\* The selections emitted: of a file name, ignore or not, with no child, one
\* child or two children.
WalkSelections ==
    {InSelection(file, ignore, [k \in 1..n |-> k - 1], <<>>, NoValues, FALSE) :
         file \in WalkNames, ignore \in BOOLEAN, n \in 0..2}

\* The caches: NameA is cached as a file or as a directory, NameB as a
\* directory or not at all, NameAB as a directory.
WalkCaches ==
    {[name \in {NameA, NameAB} \cup b |->
         SourceCacheItem(name \in dirs \cup {NameB, NameAB}, NoSource)] :
         dirs \in SUBSET {NameA}, b \in {{}, {NameB}}}

\* The locals of the walk: the map children, the slice sorted, and the
\* directories of the recursive calls made so far.
WalkLocals(children, sorted, calls) ==
    [children |-> children, sorted |-> sorted, calls |-> calls]

walkIdle == <<rules, decodes, datamodel, parser, errs>>

WalkInit ==
    /\ input \in UNION {[1..n -> WalkSelections] : n \in 0..MaxSelections}
    /\ cache \in WalkCaches
    /\ actions = <<>>
    /\ repo = WalkLocals({}, <<>>, <<>>)
    /\ pc = "scan"
    /\ rules = Idle /\ decodes = Idle /\ datamodel = Idle
    /\ parser = Idle /\ errs = Idle

\* "for _, s := range is": the scan for directories and the append of the
\* action of the selection.
WalkScan ==
    /\ pc = "scan"
    /\ Len(actions) < Len(input)
    /\ LET s == input[Len(actions) + 1]
       IN  /\ repo' = [repo EXCEPT !.children =
                          IF IsDirSelection(<<>>, s, cache) THEN @ \cup {s.File} ELSE @]
           /\ actions' = Append(actions, InAction(GlobalDepth, <<>>, <<s>>))
    /\ UNCHANGED <<input, cache, pc, walkIdle>>

\* The names of the map children, taken in some order, then sort.Strings.
WalkSort ==
    /\ pc = "scan"
    /\ Len(actions) = Len(input)
    /\ repo' = [repo EXCEPT !.sorted = SortStrings(SetToSeq(repo.children))]
    /\ pc' = "recurse"
    /\ UNCHANGED <<input, cache, actions, walkIdle>>

\* "for _, name := range sorted": the recursive call for the subdirectory.
WalkRecurse ==
    /\ pc = "recurse"
    /\ Len(repo.calls) < Len(repo.sorted)
    /\ repo' = [repo EXCEPT !.calls = Append(@, <<repo.sorted[Len(repo.calls) + 1]>>)]
    /\ UNCHANGED <<input, cache, actions, pc, walkIdle>>

WalkReturn ==
    /\ pc = "recurse"
    /\ Len(repo.calls) = Len(repo.sorted)
    /\ pc' = "returned"
    /\ UNCHANGED <<input, cache, actions, repo, walkIdle>>

WalkNext == WalkScan \/ WalkSort \/ WalkRecurse \/ WalkReturn

WalkSpec == WalkInit /\ [][WalkNext]_vars

\* A selection that induces a directory: not ignore, exactly one child, and
\* the cached source of its file is a directory.
DirectoryInducing(s) ==
    /\ ~s.Ignore
    /\ Len(s.Children) = 1
    /\ s.File \in DOMAIN cache
    /\ cache[s.File].IsDir

ApplyPending ==
    /\ pc = "analyzed"
    /\ datamodel.applied < Len(ApplyOrder(actions))
    /\ ~InSelAt(actions, ApplyOrder(actions)[datamodel.applied + 1]).Ignore

PendingDir == JoinPath(actions[ApplyOrder(actions)[datamodel.applied + 1][1]].Dir)

\* The candidates are such as the planner returns: it reads a subdirectory
\* only when a candidate of the directory above selects, not ignore and with
\* one child, the cached directory.
PlannerClosed(acts) ==
    \A n \in 1..Len(acts) :
        acts[n].Dir /= <<>> =>
            \E m \in 1..Len(acts) :
                /\ acts[m].Dir = SubSeq(acts[n].Dir, 1, Len(acts[n].Dir) - 1)
                /\ \E k \in 1..Len(acts[m].Selection) :
                       /\ acts[m].Selection[k].File = acts[n].Dir[Len(acts[n].Dir)]
                       /\ IsDirSelection(JoinPath(acts[m].Dir), acts[m].Selection[k], cache)

\* C28: whenever syncInApplyActions processes a selection of an action for
\* directory d of the list that syncInAnalyzeActions made of the planner's
\* candidates, the dir map already holds an object for d.
C28_ParentBeforeChild ==
    (ApplyPending /\ PlannerClosed(input)) => PendingDir \in DOMAIN datamodel.dirMap

\* The executor is about to process a selection of the action of the
\* subdirectory "a", which the directory selection of the action of the
\* place directory has registered.
C28_Witness ==
    /\ ApplyPending
    /\ rules /= <<>>
    /\ PlannerClosed(input)
    /\ PendingDir = NameA
    /\ NameA \in DOMAIN datamodel.dirMap
    /\ Len(actions) = 2

(***************************************************************************)
(* C29: the merge of syncInAnalyzeActions                                  *)
(***************************************************************************)

\* The winners of the override pass for a directory and a (file, ignore)
\* pair: single-item actions.
WinnersOf(dir, item) ==
    {w \in InOverrideWinners(input) :
        /\ JoinPath(w.Action.Dir) = dir
        /\ selItem(w.Action.Selection[1]) = item}

\* The selections of the merged list for a directory and a pair, each as
\* <<index of the action, index of the selection>>.
MergedFor(dir, item) ==
    {p \in InPositions(actions) :
        /\ JoinPath(actions[p[1]].Dir) = dir
        /\ selItem(InSelAt(actions, p)) = item}

SeqItems(s) == {s[i] : i \in 1..Len(s)}

\* The selection holds exactly the items of the winners, each once.
HoldsUnionOf(sel, winners) ==
    /\ SeqItems(sel.Children) = UNION {SeqItems(w.Action.Selection[1].Children) : w \in winners}
    /\ Len(sel.Children) = Cardinality(SeqItems(sel.Children))
    /\ SeqItems(sel.Properties) = UNION {SeqItems(w.Action.Selection[1].Properties) : w \in winners}
    /\ Len(sel.Properties) = Cardinality(SeqItems(sel.Properties))
    /\ DOMAIN sel.Values = UNION {DOMAIN w.Action.Selection[1].Values : w \in winners}
    /\ \A w \in winners : \A k \in DOMAIN w.Action.Selection[1].Values :
           sel.Values[k] = w.Action.Selection[1].Values[k]

\* After the merge, every directory and pair that has winners has one
\* selection, which holds the union of their items, and no other selection
\* exists.
MergeLosesNothing ==
    pc = "inMerge2" =>
        /\ \A w \in InOverrideWinners(input) :
               LET dir == JoinPath(w.Action.Dir)
                   item == selItem(w.Action.Selection[1])
               IN  /\ Cardinality(MergedFor(dir, item)) = 1
                   /\ \A p \in MergedFor(dir, item) :
                          HoldsUnionOf(InSelAt(actions, p), WinnersOf(dir, item))
        /\ \A p \in InPositions(actions) :
               WinnersOf(JoinPath(actions[p[1]].Dir), selItem(InSelAt(actions, p))) /= {}

\* C29: the merge completes and loses nothing for every input, winners of
\* one file that carry different kinds of items included.
C29_AsClaimed ==
    /\ pc = "inMerge1" => ~InMergePass2Panics(actions)
    /\ MergeLosesNothing

====
